---- MODULE Spec2Model ----
(***************************************************************************)
(* The approval-and-merge engine of pipelines-as-code-prow: the two        *)
(* command processors src/boussole/boussole.py (with cherry-pick) and      *)
(* src/prow/prow.py (without).  One command invocation is one behaviour:   *)
(* every action is the code that runs from one hosting-API response up to  *)
(* and including the next calls whose responses the code does not inspect. *)
(* The hosting API is the environment: every response is drawn from the    *)
(* small sets below at the moment the call is made.                        *)
(***************************************************************************)
EXTENDS Naturals, Sequences, FiniteSets

VARIABLES
    impl,              \* which program runs: "boussole" or "prow"
    trigger_comment,   \* args.trigger_comment
    pr_sender,         \* args.pr_sender
    comment_sender,    \* args.comment_sender
    lgtm_threshold,    \* args.lgtm_threshold
    pr,                \* hosting side: the pull request, [state, base]
    pr_commits,        \* hosting side: <<the PR's commit list>> once read, else <<>>
    pc,                \* position of the single control flow
    exit_code,         \* process exit status, meaningful when pc = "exited"
    outcome,           \* why the process ended (the diagnostic it printed)
    command,           \* main: group 1 of the trigger match
    fn,                \* the function running the tally
    send_comment,      \* lgtm(send_comment)
    _pr_status,        \* PRHandler._pr_status, None or the cached response
    comments,          \* local: the comment list last fetched
    lgtm_users,        \* local: insertion-ordered dict user -> permission
    valid_votes,       \* local: valid_votes
    k,                 \* position of the `for user in lgtm_users` loops
    merge_result,      \* what merge_pr returned: "None", "True", "False"
    cherry_pick_branches, \* merge_pr: the branches still to be iterated
    target_branch,     \* _perform_cherry_pick: target_branch
    commits,           \* _perform_cherry_pick: commits
    current_sha,       \* _perform_cherry_pick: current_sha
    base_sha,          \* _perform_cherry_pick: base_sha
    i,                 \* _perform_cherry_pick: enumerate(commits, 1) index
    job_start,         \* history: Len(calls) when the running job was entered
    target_status,     \* history: the status of the job's read of the target head
    response,          \* the response the last step inspected, if it inspected one
    jobs,              \* history: the finished jobs, [branch, outcome, returned]
    calls              \* history: every hosting-API call issued, in order

vars == <<impl, trigger_comment, pr_sender, comment_sender, lgtm_threshold, pr,
          pr_commits,
          pc, exit_code, outcome, command, fn, send_comment, _pr_status,
          comments, lgtm_users, valid_votes, k, merge_result,
          cherry_pick_branches, target_branch, commits, current_sha, base_sha,
          i, job_start, target_status, response, jobs, calls>>

config == <<impl, trigger_comment, pr_sender, comment_sender, lgtm_threshold>>

----------------------------------------------------------------------------
(* Bounds of the model. *)

MaxComments == 3
MaxRereadComments == 2
MaxCommits == 3
MaxThreshold == 2

(* Python's None. *)
None == "<None>"

(* The pull request number, args.pr_num. *)
pr_num == "12"

(* self.lgtm_permissions: the default "admin,write", split on commas. *)
lgtm_permissions == {"admin", "write"}

Impls == {"boussole", "prow"}
Users == {"alice", "bob", "carol"}
PrSenders == {"alice"}
CommentSenders == {"bob"}
TriggerComments ==
  {"/merge", "/lgtm", "merge please", "/assign @carol", "/unassign carol",
   "/label bug", "/unlabel bug wip", "/rebase", "/help", "/cherry-pick b1",
   "/cherry-pick b2 b1"}

----------------------------------------------------------------------------
(* Text.  A string is matched through its characters, as the regular       *)
(* expressions do.                                                         *)

Chars(s) ==
  CASE s = "/merge" -> <<"/", "m", "e", "r", "g", "e">>
    [] s = "/lgtm" -> <<"/", "l", "g", "t", "m">>
    [] s = "/lgtmx" -> <<"/", "l", "g", "t", "m", "x">>
    [] s = "/LGTM thanks" -> <<"/", "L", "G", "T", "M", " ", "t", "h", "a", "n", "k", "s">>
    [] s = "merge please" -> <<"m", "e", "r", "g", "e", " ", "p", "l", "e", "a", "s", "e">>
    [] s = "/cherry-pick" -> <<"/", "c", "h", "e", "r", "r", "y", "-", "p", "i", "c", "k">>
    [] s = "/cherry-pick b1" -> <<"/", "c", "h", "e", "r", "r", "y", "-", "p", "i", "c", "k", " ", "b", "1">>
    [] s = "/cherry-pick b2 b1" -> <<"/", "c", "h", "e", "r", "r", "y", "-", "p", "i", "c", "k", " ", "b", "2", " ", "b", "1">>
    [] s = "/rebase" -> <<"/", "r", "e", "b", "a", "s", "e">>
    [] s = "/assign" -> <<"/", "a", "s", "s", "i", "g", "n">>
    [] s = "/unassign" -> <<"/", "u", "n", "a", "s", "s", "i", "g", "n">>
    [] s = "/label" -> <<"/", "l", "a", "b", "e", "l">>
    [] s = "/unlabel" -> <<"/", "u", "n", "l", "a", "b", "e", "l">>
    [] s = "/help" -> <<"/", "h", "e", "l", "p">>
    [] s = "/assign @carol" -> <<"/", "a", "s", "s", "i", "g", "n", " ", "@", "c", "a", "r", "o", "l">>
    [] s = "/unassign carol" -> <<"/", "u", "n", "a", "s", "s", "i", "g", "n", " ", "c", "a", "r", "o", "l">>
    [] s = "/label bug" -> <<"/", "l", "a", "b", "e", "l", " ", "b", "u", "g">>
    [] s = "/unlabel bug wip" -> <<"/", "u", "n", "l", "a", "b", "e", "l", " ", "b", "u", "g", " ", "w", "i", "p">>
    [] s = "b1" -> <<"b", "1">>
    [] s = "b2" -> <<"b", "2">>
    [] s = "bug" -> <<"b", "u", "g">>
    [] s = "wip" -> <<"w", "i", "p">>
    [] s = "carol" -> <<"c", "a", "r", "o", "l">>
    [] s = "@carol" -> <<"@", "c", "a", "r", "o", "l">>

(* The branch names a comment of the model can carry. *)
BranchNames == {"b1", "b2"}

UpperCase == <<"A", "B", "C", "D", "E", "F", "G", "H", "I", "J", "K", "L", "M",
               "N", "O", "P", "Q", "R", "S", "T", "U", "V", "W", "X", "Y", "Z">>
LowerCase == <<"a", "b", "c", "d", "e", "f", "g", "h", "i", "j", "k", "l", "m",
               "n", "o", "p", "q", "r", "s", "t", "u", "v", "w", "x", "y", "z">>
Digits == {"0", "1", "2", "3", "4", "5", "6", "7", "8", "9"}

(* re.IGNORECASE: characters are compared after case folding. *)
ToLower ==
  [c \in {UpperCase[n] : n \in 1..Len(UpperCase)} |->
     LowerCase[CHOOSE n \in 1..Len(UpperCase) : UpperCase[n] = c]]
Fold(c) == IF c \in DOMAIN ToLower THEN ToLower[c] ELSE c

(* The word and space character classes of the regular expressions. *)
WordChars ==
  {UpperCase[n] : n \in 1..Len(UpperCase)} \cup {LowerCase[n] : n \in 1..Len(LowerCase)}
    \cup Digits \cup {"_"}
IsWordChar(c) == c \in WordChars

IsSpace(c) == c \in {" ", "\t", "\n"}

(* cs starts with p; with fold, ignoring case. *)
HasPrefix(cs, p, fold) ==
  /\ Len(cs) >= Len(p)
  /\ \A n \in 1..Len(p) :
       IF fold THEN Fold(cs[n]) = Fold(p[n]) ELSE cs[n] = p[n]

(* The vote pattern, searched ignoring case: /lgtm at the start of the     *)
(* body, then a word boundary (the end of the text or a non-word           *)
(* character).                                                             *)
MatchLgtm(body) ==
  LET cs == Chars(body)
      p == Chars("/lgtm")
  IN /\ HasPrefix(cs, p, TRUE)
     /\ \/ Len(cs) = Len(p)
        \/ ~IsWordChar(cs[Len(p) + 1])

(* The end of the longest run of characters satisfying Is(_) from n on.    *)
RECURSIVE RunEnd(_, _, _)
RunEnd(cs, n, space) ==
  IF n <= Len(cs) /\ IsSpace(cs[n]) = space THEN RunEnd(cs, n + 1, space) ELSE n

(* The cherry-pick pattern, matched ignoring case: /cherry-pick at the     *)
(* start, one or more spaces, then a run of non-space characters, which is *)
(* group 1.  None without a match.                                         *)
MatchCherryPick(body) ==
  LET cs == Chars(body)
      p == Chars("/cherry-pick")
      a == RunEnd(cs, Len(p) + 1, TRUE)
      b == RunEnd(cs, a, FALSE)
  IN IF HasPrefix(cs, p, TRUE) /\ a > Len(p) + 1 /\ b > a
     THEN CHOOSE s \in BranchNames : Chars(s) = SubSeq(cs, a, b - 1)
     ELSE None

(* main's command expression, a slash and one of the command names at the  *)
(* start of the trigger comment: the alternatives in the order each        *)
(* program tries them.                                                     *)
Commands(im) ==
  IF im = "boussole"
  THEN <<"rebase", "cherry-pick", "merge", "assign", "unassign", "label",
         "unlabel", "lgtm", "help">>
  ELSE <<"merge", "assign", "unassign", "label", "unlabel", "lgtm", "help">>

Slash(name) ==
  CASE name = "rebase" -> "/rebase"
    [] name = "cherry-pick" -> "/cherry-pick"
    [] name = "merge" -> "/merge"
    [] name = "assign" -> "/assign"
    [] name = "unassign" -> "/unassign"
    [] name = "label" -> "/label"
    [] name = "unlabel" -> "/unlabel"
    [] name = "lgtm" -> "/lgtm"
    [] name = "help" -> "/help"

(* Group 1 of the match of main's expression, or None. *)
MatchCommand(im, text) ==
  LET cs == Chars(text)
      alts == Commands(im)
      hit == {n \in 1..Len(alts) : HasPrefix(cs, Chars(Slash(alts[n])), FALSE)}
  IN IF hit = {} THEN None
     ELSE alts[CHOOSE n \in hit : \A m \in hit : n <= m]

(* The words a trigger comment of the model can carry after its command. *)
Words == {"b1", "b2", "bug", "wip", "carol", "@carol"}
Text(cs) == CHOOSE s \in Words : Chars(s) = cs

(* str.split(): the runs of non-space characters of cs from n on. *)
RECURSIVE Split(_, _)
Split(cs, n) ==
  LET a == RunEnd(cs, n, TRUE)
      b == RunEnd(cs, a, FALSE)
  IN IF a > Len(cs) THEN <<>> ELSE <<Text(SubSeq(cs, a, b - 1))>> \o Split(cs, b)

(* Group 2 of the match of main's expression, split into words: what       *)
(* follows the command name.                                               *)
Values(im, text) ==
  LET cmd == MatchCommand(im, text)
  IN IF cmd = None THEN <<>>
     ELSE Split(Chars(text), Len(Chars(Slash(cmd))) + 1)

(* The values of every trigger comment, computed once. *)
ValuesOf == [im \in Impls |-> [text \in TriggerComments |-> Values(im, text)]]

(* user.lstrip("@") *)
LStripAt(user) ==
  LET cs == Chars(user)
      n == CHOOSE m \in 1..(Len(cs) + 1) :
             /\ \A j \in 1..(m - 1) : cs[j] = "@"
             /\ m <= Len(cs) => cs[m] # "@"
  IN Text(SubSeq(cs, n, Len(cs)))

(* The stripped form of every word, computed once. *)
Stripped == [w \in Words |-> LStripAt(w)]

----------------------------------------------------------------------------
(* The hosting API's answers. *)

UserComments ==
  { [user |-> "alice", body |-> "/lgtm"],
    [user |-> "bob",   body |-> "/lgtm"],
    [user |-> "carol", body |-> "/LGTM thanks"],
    [user |-> "carol", body |-> "/lgtmx"],
    [user |-> "bob",   body |-> "/cherry-pick b1"],
    [user |-> "alice", body |-> "/cherry-pick b2 b1"] }

RECURSIVE SeqsUpTo(_, _)
SeqsUpTo(S, n) ==
  IF n = 0 THEN {<<>>}
  ELSE LET shorter == SeqsUpTo(S, n - 1)
       IN shorter \cup {Append(s, x) : s \in {t \in shorter : Len(t) = n - 1}, x \in S}

CommentLists == SeqsUpTo(UserComments, MaxComments)

(* GET issues/{pr_num}/comments, as the tally reads it. *)
CommentsResponses ==
  {[status_code |-> 200, json |-> cl] : cl \in CommentLists}
    \cup {[status_code |-> 500, json |-> <<>>]}

(* GET issues/{pr_num}/comments, as merge_pr reads it again after a merge. *)
RereadResponses ==
  {[status_code |-> 200, json |-> cl] : cl \in SeqsUpTo(UserComments, MaxRereadComments)}
    \cup {[status_code |-> 500, json |-> <<>>]}

(* GET collaborators/{user}/permission *)
PermissionResponses ==
  {[status_code |-> 200, permission |-> p] : p \in {None, "", "read", "write"}}
    \cup {[status_code |-> s, permission |-> None] : s \in {404, 500}}

(* GET pulls/{pr_num}: the state and base are the hosting side's. *)
PrStatusResponses ==
  {[status_code |-> s, state |-> pr.state, base |-> pr.base] : s \in {200, 404}}

(* self._pr_status = None: no response is held. *)
NoResponse == [status_code |-> 0, state |-> None, base |-> None]

(* requests.Response.__bool__: a response is true when its status is below *)
(* 400; None is false.                                                     *)
Truthy(resp) == resp.status_code # 0 /\ resp.status_code < 400

(* requests.Response(): a response object no answer was put into. *)
EmptyResponse == [reason |-> None]

(* bool(resp) where main tests `if response:`.  An empty Response has      *)
(* status_code None, and comparing it with a number raises TypeError.      *)
Bool(resp) ==
  IF "status_code" \notin DOMAIN resp THEN "TypeError"
  ELSE IF Truthy(resp) THEN "True" ELSE "False"

(* check_response: the status is one of 200..299. *)
CheckResponse(resp) == resp.status_code >= 200 /\ resp.status_code < 300

(* The answers to the calls of assign, unassign, label, rebase and help. *)
CommandStatuses == {200, 304, 404}

(* PUT pulls/{pr_num}/merge *)
MergeStatuses == {200, 405}

(* The PR's commits in the hosting API's chronological order, and the sha  *)
(* of the merge commit the hosting side creates when one is replayed.      *)
CommitShas == <<"c1", "c2", "c3", "c4">>
MergedShas == <<"m1", "m2", "m3", "m4">>
MergedSha(head) == MergedShas[CHOOSE n \in 1..Len(CommitShas) : CommitShas[n] = head]

(* GET pulls/{pr_num}/commits: the commits of the now merged PR, which do   *)
(* not change between two reads of one invocation, or a failure.           *)
CommitLists == {[m \in 1..n |-> [sha |-> CommitShas[m]]] : n \in 0..MaxCommits}
CommitsResponses ==
  {[status_code |-> 200, json |-> cl] :
       cl \in IF pr_commits = <<>> THEN CommitLists ELSE {pr_commits[1]}}
    \cup {[status_code |-> 500, json |-> <<>>]}

(* GET git/refs/heads/{branch}: the head of an existing branch, or not.    *)
HeadSha(branch) == IF branch = "main" THEN "abc123" ELSE "t0"
RefResponses(branch) ==
  {[status_code |-> 200, sha |-> HeadSha(branch)]}
    \cup {[status_code |-> st, sha |-> None] : st \in {404, 500}}

(* POST git/refs *)
CreateStatuses == {201, 422}

(* POST merges *)
ReplayResponses(head) ==
  {[status_code |-> 201, sha |-> MergedSha(head)]}
    \cup {[status_code |-> st, sha |-> None] : st \in {409, 500}}

----------------------------------------------------------------------------
(* The call log and the process's end. *)

Call(ep, site, arg, data) ==
  [ep |-> ep, site |-> site, arg |-> arg, data |-> data]

(* PRHandler._post_comment / post_comment: the response is not inspected. *)
PostComment(site, template, data) ==
  Call("POST issues/comments", site, template, data)

(* sys.exit(code), or main returning (code 0). *)
Exit(code, why) ==
  /\ pc' = "exited"
  /\ exit_code' = code
  /\ outcome' = why

(* A dict that keeps one entry per assignment, like a list of pairs. *)
DictSetAppends(d, key, value) == Append(d, [user |-> key, permission |-> value])

(* A dict whose assignment to an old key moves the key to the end. *)
DictSetMovesToEnd(d, key, value) ==
  Append(SelectSeq(d, LAMBDA e : e.user # key), [user |-> key, permission |-> value])

(* Python dict assignment d[key] = value: a new key goes last, an old one  *)
(* keeps its place.                                                        *)
DictSet(d, key, value) ==
  IF \E n \in 1..Len(d) : d[n].user = key
  THEN [n \in 1..Len(d) |->
          IF d[n].user = key THEN [user |-> key, permission |-> value] ELSE d[n]]
  ELSE Append(d, [user |-> key, permission |-> value])

Keys(d) == {d[n].user : n \in 1..Len(d)}

(* A membership check that accepts every collaborator, whatever the level. *)
CheckMembershipAnyLevel(resp) ==
  IF resp.status_code # 200 \/ resp.permission = None \/ resp.permission = ""
  THEN [permission |-> None, is_valid |-> FALSE]
  ELSE [permission |-> resp.permission, is_valid |-> TRUE]

(* A membership check that takes an empty permission field for a level. *)
CheckMembershipKeepsEmpty(resp) ==
  IF resp.status_code # 200
  THEN [permission |-> None, is_valid |-> FALSE]
  ELSE IF resp.permission = None
  THEN [permission |-> None, is_valid |-> FALSE]
  ELSE [permission |-> resp.permission,
        is_valid |-> resp.permission \in lgtm_permissions]

(* check_membership: (permission, is_valid) for a response.  boussole       *)
(* answers a 404 before the other failures, with the same result.          *)
CheckMembership(resp) ==
  IF resp.status_code # 200
  THEN [permission |-> None, is_valid |-> FALSE]
  ELSE IF resp.permission = None \/ resp.permission = ""
  THEN [permission |-> None, is_valid |-> FALSE]
  ELSE [permission |-> resp.permission,
        is_valid |-> resp.permission \in lgtm_permissions]

(* A scan that takes the PR sender's vote like any other vote. *)
RECURSIVE ScanVotesCountsSender(_, _, _)
ScanVotesCountsSender(cs, n, users) ==
  IF n > Len(cs) THEN [self |-> 0, lgtm_users |-> users]
  ELSE IF MatchLgtm(cs[n].body)
  THEN ScanVotesCountsSender(cs, n + 1, DictSet(users, cs[n].user, None))
  ELSE ScanVotesCountsSender(cs, n + 1, users)

(* A scan that drops the PR sender's vote and goes on with the others. *)
RECURSIVE ScanVotesSkipsSender(_, _, _)
ScanVotesSkipsSender(cs, n, users) ==
  IF n > Len(cs) THEN [self |-> 0, lgtm_users |-> users]
  ELSE IF MatchLgtm(cs[n].body) /\ cs[n].user # pr_sender
  THEN ScanVotesSkipsSender(cs, n + 1, DictSet(users, cs[n].user, None))
  ELSE ScanVotesSkipsSender(cs, n + 1, users)

(* The scan `for comment in comments` of the tally: the index of the first  *)
(* vote by the PR sender (0 if none) and the voters collected before it.   *)
RECURSIVE ScanVotes(_, _, _)
ScanVotes(cs, n, users) ==
  IF n > Len(cs) THEN [self |-> 0, lgtm_users |-> users]
  ELSE IF MatchLgtm(cs[n].body)
  THEN IF cs[n].user = pr_sender
       THEN [self |-> n, lgtm_users |-> users]
       ELSE ScanVotes(cs, n + 1, DictSet(users, cs[n].user, None))
  ELSE ScanVotes(cs, n + 1, users)

(* Where the tally's function goes once every voter is looked up. *)
AfterTally == IF fn = "lgtm" THEN "lgtm_decide" ELSE "merge_decide"

(* The rows of the vote table the reports render: every entry of the dict, *)
(* in its order, with the mark recomputed from the recorded permission.    *)
UsersTable(d) ==
  [n \in 1..Len(d) |->
     [user |-> d[n].user, permission |-> d[n].permission,
      valid_mark |-> d[n].permission \in lgtm_permissions]]

----------------------------------------------------------------------------
(* The state after PRHandler is constructed, for every configuration.      *)

Init ==
  /\ impl \in Impls
  /\ trigger_comment \in TriggerComments
  /\ pr_sender \in PrSenders
  /\ comment_sender \in CommentSenders
  /\ lgtm_threshold \in 0..MaxThreshold
  /\ pr \in [state : {"open", "closed"}, base : {"main"}]
  /\ pr_commits = <<>>
  /\ pc = "main"
  /\ exit_code = 0
  /\ outcome = "running"
  /\ command = None
  /\ fn = None
  /\ send_comment = TRUE
  /\ _pr_status = NoResponse
  /\ comments = <<>>
  /\ lgtm_users = <<>>
  /\ valid_votes = 0
  /\ k = 0
  /\ merge_result = "None"
  /\ cherry_pick_branches = {}
  /\ target_branch = None
  /\ commits = <<>>
  /\ current_sha = None
  /\ base_sha = None
  /\ i = 0
  /\ job_start = 0
  /\ target_status = 0
  /\ response = NoResponse
  /\ jobs = <<>>
  /\ calls = <<>>

tally_vars == <<comments, lgtm_users, valid_votes, k>>
job_vars == <<cherry_pick_branches, target_branch, commits, current_sha,
              base_sha, i, job_start, target_status, jobs>>

(* main's dispatch on the command: the handler's entry. *)
Dispatch(cmd) ==
  /\ command' = cmd
  /\ pc' = CASE cmd = "merge" -> "merge_pr"
             [] cmd = "lgtm" -> "tally_fetch"
             [] OTHER -> cmd
  /\ fn' = IF cmd = "lgtm" THEN "lgtm" ELSE fn
  /\ UNCHANGED <<exit_code, outcome>>

(* main up to the dispatch: the trigger comment is matched; boussole then   *)
(* reads the PR (check_status) and goes on only if it is open.             *)
Main ==
  /\ pc = "main"
  /\ LET cmd == MatchCommand(impl, trigger_comment)
     IN IF cmd = None
        THEN /\ Exit(1, "no_command")
             /\ UNCHANGED <<command, fn, _pr_status, calls, response>>
        ELSE IF impl = "prow"
        THEN /\ Dispatch(cmd)
             /\ UNCHANGED <<_pr_status, calls, response>>
        ELSE \E resp \in PrStatusResponses :
               /\ _pr_status' = resp
               /\ response' = resp
               /\ calls' = Append(calls, Call("GET pulls", "check_status", pr_num, <<>>))
               /\ IF resp.status_code # 200
                  THEN Exit(1, "pr_status_error") /\ UNCHANGED <<command, fn>>
                  ELSE IF resp.state # "open"
                  THEN Exit(1, "not_open") /\ UNCHANGED <<command, fn>>
                  ELSE Dispatch(cmd)
  /\ UNCHANGED <<config, pr, pr_commits, send_comment, merge_result, tally_vars, job_vars>>

(* merge_pr, step 1: the invoker's permission. *)
MergeCheckInvoker ==
  /\ pc = "merge_pr"
  /\ \E resp \in PermissionResponses :
       LET m == CheckMembership(resp)
           lookup == Call("GET collaborators/permission", "merge_pr", comment_sender, <<>>)
       IN /\ response' = resp
          /\ IF ~m.is_valid
             THEN /\ calls' = calls \o
                       <<lookup,
                         PostComment("merge_pr", "INSUFFICIENT_PERMISSIONS",
                                     [user |-> comment_sender, permission |-> m.permission])>>
                  /\ Exit(1, "insufficient_permissions")
                  /\ UNCHANGED <<fn, send_comment>>
             ELSE /\ calls' = Append(calls, lookup)
                  /\ pc' = "tally_fetch"
                  /\ fn' = IF impl = "boussole"
                           THEN "_fetch_and_validate_lgtm_votes" ELSE "lgtm"
                  /\ send_comment' = IF impl = "prow" THEN FALSE ELSE send_comment
                  /\ UNCHANGED <<exit_code, outcome>>
  /\ UNCHANGED <<config, pr, pr_commits, command, _pr_status, merge_result, tally_vars, job_vars>>

(* A test that also takes an answer without a list for an empty list. *)
CommentsFetchedWhateverStatus(resp) == resp.status_code = 200 \/ resp.json = <<>>

(* The tally's test of the answer to its fetch of the comments. *)
CommentsFetched(resp) == resp.status_code = 200

(* The tally, step 1: the comments are fetched and scanned for votes. *)
FetchVotes ==
  /\ pc = "tally_fetch"
  /\ \E resp \in CommentsResponses :
       LET get == Call("GET issues/comments", fn, pr_num, <<>>)
           scan == ScanVotes(resp.json, 1, <<>>)
       IN /\ response' = resp
          /\ IF ~CommentsFetched(resp)
             THEN /\ calls' = Append(calls, get)
                  /\ Exit(1, "comments_fetch_error")
                  /\ UNCHANGED tally_vars
             ELSE IF scan.self # 0
             THEN /\ calls' = calls \o
                       <<get, PostComment(fn, "SELF_APPROVAL_ERROR",
                                          [user |-> pr_sender, comment |-> scan.self])>>
                  /\ Exit(1, "self_approval")
                  /\ comments' = resp.json
                  /\ lgtm_users' = scan.lgtm_users
                  /\ UNCHANGED <<valid_votes, k>>
             ELSE /\ calls' = Append(calls, get)
                  /\ comments' = resp.json
                  /\ lgtm_users' = scan.lgtm_users
                  /\ valid_votes' = 0
                  /\ k' = 1
                  /\ pc' = IF Len(scan.lgtm_users) = 0 THEN AfterTally ELSE "tally_check"
                  /\ UNCHANGED <<exit_code, outcome>>
  /\ UNCHANGED <<config, pr, pr_commits, command, fn, send_comment, _pr_status, merge_result,
                 job_vars>>

(* A loop that leaves the remaining voters out once a lookup has failed. *)
AfterLookupStopsOnFailure(m) ==
  IF k = Len(lgtm_users) \/ m.permission = None THEN AfterTally ELSE "tally_check"

(* `for user in lgtm_users`: after the lookup with result m the loop goes   *)
(* on with the next voter, whatever m is, and ends after the last one.     *)
AfterLookup(m) ==
  IF k = Len(lgtm_users) THEN AfterTally ELSE "tally_check"

(* The tally, step 2: one turn of `for user in lgtm_users`. *)
CheckVoter ==
  /\ pc = "tally_check"
  /\ \E resp \in PermissionResponses :
       LET user == lgtm_users[k].user
           m == CheckMembership(resp)
       IN /\ response' = resp
          /\ calls' = Append(calls,
                 Call("GET collaborators/permission", fn, user, <<>>))
          /\ lgtm_users' = DictSet(lgtm_users, user, m.permission)
          /\ valid_votes' = IF m.is_valid THEN valid_votes + 1 ELSE valid_votes
          /\ pc' = AfterLookup(m)
  /\ k' = k + 1
  /\ UNCHANGED <<config, pr, pr_commits, exit_code, outcome, command, fn, send_comment,
                 _pr_status, comments, merge_result, job_vars>>

(* A threshold test that is off by one vote. *)
EnoughVotesOffByOne == valid_votes + 1 >= lgtm_threshold

(* The threshold test of lgtm and of merge_pr. *)
EnoughVotes == valid_votes >= lgtm_threshold

(* lgtm: the threshold is met; the approval review is posted and the count  *)
(* returned to main or, in prow, to merge_pr.                              *)
LgtmApprove ==
  /\ pc = "lgtm_decide"
  /\ EnoughVotes
  /\ calls' = Append(calls,
        Call("POST pulls/reviews", "lgtm", "APPROVE",
             [valid_votes |-> valid_votes, threshold |-> lgtm_threshold,
              users_table |-> UsersTable(lgtm_users)]))
  /\ IF command = "merge"
     THEN pc' = "merge_decide" /\ UNCHANGED <<exit_code, outcome>>
     ELSE Exit(0, "returned")
  /\ response' = NoResponse
  /\ UNCHANGED <<config, pr, pr_commits, command, fn, send_comment, _pr_status, merge_result,
                 tally_vars, job_vars>>

(* A breakdown that is delivered as a review of the PR. *)
BreakdownReportAsReview ==
  Call("POST pulls/reviews", "_post_lgtm_breakdown", "COMMENT",
       [valid_votes |-> valid_votes, threshold |-> lgtm_threshold,
        users_table |-> UsersTable(lgtm_users)])

(* _post_lgtm_breakdown: the vote table, posted as a comment. *)
BreakdownReport ==
  PostComment("_post_lgtm_breakdown", "LGTM_BREAKDOWN_TEMPLATE",
              [valid_votes |-> valid_votes, threshold |-> lgtm_threshold,
               users_table |-> UsersTable(lgtm_users)])

(* lgtm: the threshold is not met; the breakdown is posted if asked for and *)
(* the process exits with status 0.                                        *)
LgtmNotEnough ==
  /\ pc = "lgtm_decide"
  /\ ~EnoughVotes
  /\ calls' = IF send_comment
              THEN Append(calls, BreakdownReport)
              ELSE calls
  /\ Exit(0, "not_enough_lgtm")
  /\ response' = NoResponse
  /\ UNCHANGED <<config, pr, pr_commits, command, fn, send_comment, _pr_status, merge_result,
                 tally_vars, job_vars>>

(* merge_pr after the tally's function has returned: the function's locals *)
(* are gone.  boussole's returns (valid_votes, lgtm_users); prow's lgtm     *)
(* returns valid_votes alone.                                              *)
ReturnedTally ==
  /\ comments' = <<>>
  /\ lgtm_users' = IF impl = "boussole" THEN lgtm_users ELSE <<>>
  /\ k' = 0
  /\ UNCHANGED valid_votes

(* A merge-failed report that does not carry the status of the response. *)
MergeFailedReportBlankStatus(status) ==
  PostComment("merge_pr", "MERGE_FAILED",
              [pr_num |-> pr_num, status_code |-> 0, error_text |-> "response.text"])

(* merge_pr: the report of a merge call answered with another status than  *)
(* 200.                                                                    *)
MergeFailedReport(status) ==
  PostComment("merge_pr", "MERGE_FAILED",
              [pr_num |-> pr_num, status_code |-> status,
               error_text |-> "response.text"])

(* A test that takes every answer to the merge call for a success. *)
MergeSucceededWhateverStatus(status) == status \in MergeStatuses

(* merge_pr: `if response and response.status_code == 200`. *)
MergeSucceeded(status) == Truthy([status_code |-> status]) /\ status = 200

(* merge_pr: the threshold is met and the merge call is issued. *)
MergeCall ==
  /\ pc = "merge_decide"
  /\ EnoughVotes
  /\ \E status \in MergeStatuses :
       LET put == Call("PUT pulls/merge", "merge_pr", pr_num,
                       [valid_votes |-> valid_votes])
       IN /\ response' = [status_code |-> status]
          /\ IF MergeSucceeded(status)
             THEN /\ calls' = Append(calls, put)
                  /\ pc' = IF impl = "boussole" THEN "merge_rescan" ELSE "summary_fetch"
                  /\ UNCHANGED <<exit_code, outcome, merge_result>>
             ELSE /\ calls' = calls \o
                       <<put, MergeFailedReport(status)>>
                  /\ merge_result' = "False"
                  /\ Exit(0, "returned")
  /\ ReturnedTally
  /\ UNCHANGED <<config, pr, pr_commits, command, fn, send_comment, _pr_status, job_vars>>

(* merge_pr: the threshold is not met. *)
MergeNotEnough ==
  /\ pc = "merge_decide"
  /\ ~EnoughVotes
  /\ calls' = Append(calls,
        PostComment("merge_pr", "NOT_ENOUGH_LGTM",
                    [valid_votes |-> valid_votes, threshold |-> lgtm_threshold]))
  /\ merge_result' = "False"
  /\ Exit(0, "returned")
  /\ ReturnedTally
  /\ response' = NoResponse
  /\ UNCHANGED <<config, pr, pr_commits, command, fn, send_comment, _pr_status, job_vars>>

(* merge_pr after a successful merge, boussole: the comments are fetched   *)
(* again and the requested cherry-pick branches collected into a set.      *)
RescanComments ==
  /\ pc = "merge_rescan"
  /\ \E resp \in RereadResponses :
       LET get == Call("GET issues/comments", "merge_pr", pr_num, <<>>)
           branches == {MatchCherryPick(resp.json[n].body) : n \in 1..Len(resp.json)}
                         \ {None}
       IN /\ calls' = Append(calls, get)
          /\ response' = resp
          /\ IF resp.status_code # 200
             THEN /\ Exit(1, "comments_fetch_error")
                  /\ UNCHANGED <<comments, cherry_pick_branches>>
             ELSE /\ comments' = resp.json
                  /\ cherry_pick_branches' = branches
                  /\ pc' = IF branches = {} THEN "merge_success" ELSE "cp_loop"
                  /\ UNCHANGED <<exit_code, outcome>>
  /\ UNCHANGED <<config, pr, pr_commits, command, fn, send_comment, _pr_status, lgtm_users,
                 valid_votes, k, merge_result, target_branch, commits,
                 current_sha, base_sha, i, job_start, target_status, jobs>>

(* A failed job after which merge_pr still answers True. *)
JobFailsUnnoticed(how, request, template, data) ==
  /\ calls' = calls \o <<request, PostComment("_perform_cherry_pick", template, data)>>
  /\ jobs' = Append(jobs, [branch |-> target_branch', outcome |-> how,
                           returned |-> FALSE, sha |-> current_sha'])
  /\ merge_result' = "True"
  /\ Exit(0, "returned")

(* _perform_cherry_pick returns False: its report is posted, the job is    *)
(* recorded, and merge_pr returns False at once, to main, which ends.      *)
JobFails(how, request, template, data) ==
  /\ calls' = calls \o <<request, PostComment("_perform_cherry_pick", template, data)>>
  /\ jobs' = Append(jobs, [branch |-> target_branch', outcome |-> how,
                           returned |-> FALSE, sha |-> current_sha'])
  /\ merge_result' = "False"
  /\ Exit(0, "returned")

(* A loop that does not use up the branch whose job it starts. *)
RemainingKeepsBranch(b) == cherry_pick_branches

(* `for target_branch in cherry_pick_branches`: the branches still to be    *)
(* visited once b is taken; a set is iterated one element at a time.       *)
Remaining(b) == cherry_pick_branches \ {b}

(* One turn of `for target_branch in cherry_pick_branches` (a set: any      *)
(* order) and the start of _perform_cherry_pick: the PR's commits.         *)
StartCherryPick ==
  /\ pc = "cp_loop"
  /\ \E b \in cherry_pick_branches, resp \in CommitsResponses :
       LET get == Call("GET pulls/commits", "_get_pr_commits", pr_num, <<>>)
           fetched == IF resp.status_code # 200 THEN <<>> ELSE resp.json
       IN /\ target_branch' = b
          /\ cherry_pick_branches' = Remaining(b)
          /\ job_start' = Len(calls)
          /\ pr_commits' = IF resp.status_code = 200 THEN <<resp.json>> ELSE pr_commits
          /\ target_status' = 0
          /\ response' = resp
          /\ commits' = fetched
          /\ current_sha' = None
          /\ base_sha' = None
          /\ i' = 0
          /\ IF fetched = <<>>
             THEN JobFails("failed", get, "CHERRY_PICK_ERROR",
                           [source_pr |-> pr_num, target_branch |-> b,
                            status_code |-> "404",
                            error_text |-> "Could not fetch PR commits"])
             ELSE /\ calls' = Append(calls, get)
                  /\ pc' = "cp_resolve"
                  /\ UNCHANGED <<exit_code, outcome, merge_result, jobs>>
  /\ comments' = <<>>
  /\ UNCHANGED <<config, pr, command, fn, send_comment, _pr_status, lgtm_users,
                 valid_votes, k>>

(* _perform_cherry_pick: the target branch's head is read. *)
CpResolveBranch ==
  /\ pc = "cp_resolve"
  /\ \E resp \in RefResponses(target_branch) :
       LET sha == IF resp.status_code # 200 THEN None ELSE resp.sha
       IN /\ calls' = Append(calls,
                 Call("GET git/refs/heads", "_get_branch_sha", target_branch, <<>>))
          /\ response' = resp
          /\ target_status' = resp.status_code
          /\ current_sha' = sha
          /\ i' = IF sha = None THEN i ELSE 1
          /\ pc' = IF sha = None THEN "cp_base" ELSE "cp_replay"
  /\ UNCHANGED <<config, pr, pr_commits, exit_code, outcome, command, fn, send_comment,
                 _pr_status, tally_vars, merge_result, cherry_pick_branches,
                 target_branch, commits, base_sha, job_start, jobs>>

(* A handler that keeps no PR status and reads it at every use. *)
HeldPrStatusNever == FALSE

(* _get_pr_status: `if self._pr_status`, the held response is a true one.  *)
HeldPrStatus == Truthy(_pr_status)

(* _perform_cherry_pick, no target branch: the PR's base branch is taken    *)
(* from the PR status (the held response if it is true, else a new read)   *)
(* and its head is read.                                                   *)
CpBaseSha ==
  /\ pc = "cp_base"
  /\ \E fresh \in PrStatusResponses, resp \in RefResponses(pr.base) :
       LET held == HeldPrStatus
           status == IF held THEN _pr_status ELSE fresh
           read == IF held THEN <<>>
                   ELSE <<Call("GET pulls", "_get_pr_status", pr_num, <<>>)>>
           base_branch == status.base
           get == Call("GET git/refs/heads", "_get_branch_sha", base_branch, <<>>)
           sha == IF resp.status_code # 200 THEN None ELSE resp.sha
       IN /\ _pr_status' = status
          /\ response' = resp
          /\ base_sha' = sha
          /\ current_sha' = current_sha
          /\ target_branch' = target_branch
          /\ IF sha = None
             THEN /\ calls' = calls \o read \o
                       <<get, PostComment("_perform_cherry_pick", "CHERRY_PICK_ERROR",
                           [source_pr |-> pr_num, target_branch |-> target_branch,
                            status_code |-> "404",
                            error_text |-> "Could not find base branch"])>>
                  /\ jobs' = Append(jobs, [branch |-> target_branch,
                                           outcome |-> "failed", returned |-> FALSE,
                                           sha |-> current_sha])
                  /\ merge_result' = "False"
                  /\ Exit(0, "returned")
             ELSE /\ calls' = calls \o read \o <<get>>
                  /\ pc' = "cp_create"
                  /\ UNCHANGED <<exit_code, outcome, merge_result, jobs>>
  /\ UNCHANGED <<config, pr, pr_commits, command, fn, send_comment, tally_vars,
                 cherry_pick_branches, commits, i, job_start, target_status>>

(* A creation request at the PR's first commit instead of the base head. *)
CreateBranchCallAtCommit ==
  Call("POST git/refs", "_create_branch", target_branch, [sha |-> commits[1].sha])

(* _create_branch(target_branch, base_sha): the request. *)
CreateBranchCall ==
  Call("POST git/refs", "_create_branch", target_branch, [sha |-> base_sha])

(* A test that takes "the reference already exists" for a creation. *)
BranchCreatedOrExists(status) == status \in {201, 422}

(* _create_branch's result: the answer's status is 201. *)
BranchCreated(status) == status = 201

(* _perform_cherry_pick, no target branch: it is created at the base sha.  *)
CpCreateBranch ==
  /\ pc = "cp_create"
  /\ \E status \in CreateStatuses :
       LET post == CreateBranchCall
       IN /\ target_branch' = target_branch
          /\ response' = [status_code |-> status]
          /\ IF ~BranchCreated(status)
             THEN /\ current_sha' = current_sha
                  /\ JobFails("failed", post, "CHERRY_PICK_ERROR",
                              [source_pr |-> pr_num, target_branch |-> target_branch,
                               status_code |-> "422",
                               error_text |-> "Could not create branch"])
                  /\ UNCHANGED i
             ELSE /\ calls' = Append(calls, post)
                  /\ current_sha' = base_sha
                  /\ i' = 1
                  /\ pc' = "cp_replay"
                  /\ UNCHANGED <<exit_code, outcome, merge_result, jobs>>
  /\ UNCHANGED <<config, pr, pr_commits, command, fn, send_comment, _pr_status, tally_vars,
                 cherry_pick_branches, commits, base_sha, job_start, target_status>>

(* A replay that walks the commit list from its end. *)
ReplayCallReversed(n) ==
  Call("POST merges", "_perform_cherry_pick", target_branch,
       [base |-> target_branch, head |-> commits[Len(commits) + 1 - n].sha, i |-> n,
        total |-> Len(commits), by |-> comment_sender])

(* The request of the i-th turn of `for i, commit in enumerate(commits, 1)`. *)
ReplayCall(n) ==
  Call("POST merges", "_perform_cherry_pick", target_branch,
       [base |-> target_branch, head |-> commits[n].sha, i |-> n,
        total |-> Len(commits), by |-> comment_sender])

(* A conflict report that counts the commits from zero. *)
ConflictReportFromZero(n) ==
  PostComment("_handle_merge_conflict", "CHERRY_PICK_CONFLICT",
              [pr_num |-> pr_num, target_branch |-> target_branch,
               current_commit |-> n - 1, total_commits |-> Len(commits),
               commit_sha |-> commits[n].sha])

(* _handle_merge_conflict: the conflict report for the n-th commit. *)
ConflictReport(n) ==
  PostComment("_handle_merge_conflict", "CHERRY_PICK_CONFLICT",
              [pr_num |-> pr_num, target_branch |-> target_branch,
               current_commit |-> n, total_commits |-> Len(commits),
               commit_sha |-> commits[n].sha])

(* A replay loop that never moves current_sha. *)
AdvancedShaStale(resp) == current_sha

(* current_sha after a replay answered with 201: the sha of the response.  *)
AdvancedSha(resp) == resp.sha

(* A loop that replays the commit it stands at once more. *)
NextIndexStays == i

(* `for i, commit in enumerate(commits, 1)`: the next turn's index. *)
NextIndex == i + 1

(* _perform_cherry_pick: one commit is replayed; after the last one the     *)
(* success report is posted and the job returns True to merge_pr's loop.   *)
CpReplay ==
  /\ pc = "cp_replay"
  /\ \E resp \in ReplayResponses(commits[i].sha) :
       LET post == ReplayCall(i)
       IN /\ target_branch' = target_branch
          /\ response' = resp
          /\ IF resp.status_code = 409
             THEN /\ current_sha' = current_sha
                  /\ calls' = calls \o <<post, ConflictReport(i)>>
                  /\ jobs' = Append(jobs, [branch |-> target_branch,
                                           outcome |-> "conflict", returned |-> FALSE,
                                           sha |-> current_sha])
                  /\ merge_result' = "False"
                  /\ Exit(0, "returned")
                  /\ UNCHANGED i
             ELSE IF resp.status_code # 201
             THEN /\ current_sha' = current_sha
                  /\ JobFails("failed", post, "CHERRY_PICK_ERROR",
                              [source_pr |-> pr_num, target_branch |-> target_branch,
                               status_code |-> resp.status_code,
                               error_text |-> "response.text"])
                  /\ UNCHANGED i
             ELSE IF i < Len(commits)
             THEN /\ calls' = Append(calls, post)
                  /\ current_sha' = AdvancedSha(resp)
                  /\ i' = NextIndex
                  /\ UNCHANGED <<pc, exit_code, outcome, merge_result, jobs>>
             ELSE /\ calls' = calls \o
                       <<post, PostComment("_perform_cherry_pick", "CHERRY_PICK_SUCCESS",
                           [source_pr |-> pr_num, target_branch |-> target_branch,
                            user |-> comment_sender,
                            commit_sha |-> AdvancedSha(resp)])>>
                  /\ current_sha' = AdvancedSha(resp)
                  /\ i' = NextIndex
                  /\ jobs' = Append(jobs, [branch |-> target_branch, outcome |-> "done",
                                           returned |-> TRUE, sha |-> AdvancedSha(resp)])
                  /\ pc' = IF cherry_pick_branches = {} THEN "merge_success"
                           ELSE "cp_loop"
                  /\ UNCHANGED <<exit_code, outcome, merge_result>>
  /\ UNCHANGED <<config, pr, pr_commits, command, fn, send_comment, _pr_status, tally_vars,
                 cherry_pick_branches, commits, base_sha, job_start, target_status>>

(* prow's merge_pr after a successful merge: the comments are read again   *)
(* (no status check) and the voters other than the PR sender collected.    *)
RECURSIVE ScanSummary(_, _, _)
ScanSummary(cs, n, users) ==
  IF n > Len(cs) THEN users
  ELSE IF MatchLgtm(cs[n].body) /\ cs[n].user # pr_sender
  THEN ScanSummary(cs, n + 1, DictSet(users, cs[n].user, None))
  ELSE ScanSummary(cs, n + 1, users)

SummaryFetch ==
  /\ pc = "summary_fetch"
  /\ \E resp \in RereadResponses :
       /\ calls' = Append(calls,
             Call("GET issues/comments", "merge_pr", pr_num, <<>>))
       /\ response' = resp
       /\ IF resp.status_code # 200
          THEN /\ Exit(1, "exception")
               /\ UNCHANGED <<comments, lgtm_users, k>>
          ELSE /\ comments' = resp.json
               /\ lgtm_users' = ScanSummary(resp.json, 1, <<>>)
               /\ k' = 1
               /\ pc' = IF ScanSummary(resp.json, 1, <<>>) = <<>>
                        THEN "merge_success" ELSE "summary_check"
               /\ UNCHANGED <<exit_code, outcome>>
  /\ UNCHANGED <<config, pr, pr_commits, command, fn, send_comment, _pr_status, valid_votes,
                 merge_result, job_vars>>

(* prow's merge_pr: one turn of the permission loop of the summary. *)
SummaryCheck ==
  /\ pc = "summary_check"
  /\ \E resp \in PermissionResponses :
       LET user == lgtm_users[k].user
           m == CheckMembership(resp)
       IN /\ response' = resp
          /\ calls' = Append(calls,
                 Call("GET collaborators/permission", "merge_pr", user, <<>>))
          /\ lgtm_users' = DictSet(lgtm_users, user, m.permission)
  /\ k' = k + 1
  /\ pc' = IF k = Len(lgtm_users) THEN "merge_success" ELSE "summary_check"
  /\ comments' = <<>>
  /\ UNCHANGED <<config, pr, pr_commits, exit_code, outcome, command, fn, send_comment,
                 _pr_status, valid_votes, merge_result, job_vars>>

(* merge_pr: the success summary is posted and True returned. *)
MergeSuccess ==
  /\ pc = "merge_success"
  /\ calls' = Append(calls,
        PostComment("merge_pr", "SUCCESS_MERGED",
                    [comment_sender |-> comment_sender, valid_votes |-> valid_votes,
                     lgtm_threshold |-> lgtm_threshold,
                     users_table |-> UsersTable(lgtm_users)]))
  /\ merge_result' = "True"
  /\ Exit(0, "returned")
  /\ comments' = <<>>
  /\ response' = NoResponse
  /\ UNCHANGED <<config, pr, pr_commits, command, fn, send_comment, _pr_status, lgtm_users,
                 valid_votes, k, job_vars>>

(* What every handler of a simple command leaves alone. *)
handler_frame ==
  <<config, pr, pr_commits, exit_code, outcome, command, fn, send_comment, _pr_status,
    merge_result, tally_vars, job_vars>>

(* assign_unassign: the reviewers are requested or withdrawn, and the      *)
(* comment is posted when the call succeeded.                              *)
AssignUnassign ==
  /\ pc \in {"assign", "unassign"}
  /\ \E status \in CommandStatuses :
       LET values == ValuesOf[impl][trigger_comment]
           users == [n \in 1..Len(values) |-> Stripped[values[n]]]
           method == IF command = "assign" THEN "POST pulls/requested_reviewers"
                     ELSE "DELETE pulls/requested_reviewers"
           resp == [status_code |-> status]
       IN /\ calls' = calls \o <<Call(method, "assign_unassign", pr_num,
                                       [reviewers |-> users])>>
                       \o (IF Truthy(resp) /\ status \in {200, 201, 204}
                           THEN <<PostComment("assign_unassign", "ASSIGNED",
                                              [command |-> command, users |-> users])>>
                           ELSE <<>>)
          /\ response' = resp
  /\ pc' = "main_end"
  /\ UNCHANGED handler_frame

(* label: the comment is posted, then the labels are added. *)
Label ==
  /\ pc = "label"
  /\ \E status \in CommandStatuses :
       LET labels == ValuesOf[impl][trigger_comment]
       IN /\ calls' = calls \o
                 <<PostComment("label", "ADDED_LABELS", [labels |-> labels]),
                   Call("POST issues/labels", "label", pr_num, [labels |-> labels])>>
          /\ response' = [status_code |-> status]
  /\ pc' = "main_end"
  /\ UNCHANGED handler_frame

(* unlabel: one removal per label, whose answers are not looked at, then   *)
(* the comment; an empty response is returned.                             *)
Unlabel ==
  /\ pc = "unlabel"
  /\ LET labels == ValuesOf[impl][trigger_comment]
     IN calls' = calls \o
          [n \in 1..Len(labels) |->
             Call("DELETE issues/labels", "unlabel", labels[n], <<>>)]
          \o <<PostComment("unlabel", "REMOVED_LABELS", [labels |-> labels])>>
  /\ response' = EmptyResponse
  /\ pc' = "main_end"
  /\ UNCHANGED handler_frame

(* cherry_pick: with one argument the announcement is posted; main does    *)
(* not keep what the handler returns.                                      *)
CherryPick ==
  /\ pc = "cherry-pick"
  /\ LET values == ValuesOf[impl][trigger_comment]
     IN IF Len(values) # 1
        THEN /\ Exit(1, "cherry_pick_arguments")
             /\ UNCHANGED calls
        ELSE /\ calls' = Append(calls,
                   PostComment("cherry_pick", "WILL_CHERRY_PICK",
                               [target_branch |-> values[1]]))
             /\ pc' = "main_end"
             /\ UNCHANGED <<exit_code, outcome>>
  /\ response' = NoResponse
  /\ UNCHANGED <<config, pr, pr_commits, command, fn, send_comment, _pr_status,
                 merge_result, tally_vars, job_vars>>

(* rebase: the comment is posted, then the branch update is requested. *)
Rebase ==
  /\ pc = "rebase"
  /\ \E status \in CommandStatuses :
       /\ calls' = calls \o
              <<PostComment("rebase", "REBASED", <<>>),
                Call("PUT pulls/update-branch", "rebase", pr_num, <<>>)>>
       /\ response' = [status_code |-> status]
  /\ pc' = "main_end"
  /\ UNCHANGED handler_frame

(* help: the help text is posted. *)
Help ==
  /\ pc = "help"
  /\ \E status \in CommandStatuses :
       /\ calls' = Append(calls, PostComment("main", "HELP_TEXT", <<>>))
       /\ response' = [status_code |-> status]
  /\ pc' = "main_end"
  /\ UNCHANGED handler_frame

(* main after the handler of a simple command has returned.  boussole      *)
(* tests the response it kept; prow keeps none and ends.                   *)
MainEnd ==
  /\ pc = "main_end"
  /\ IF impl = "prow"
     THEN Exit(0, "done")
     ELSE IF Bool(response) = "TypeError"
     THEN Exit(1, "exception")
     ELSE IF Bool(response) = "True" /\ ~CheckResponse(response)
     THEN Exit(1, "command_failed")
     ELSE Exit(0, "done")
  /\ UNCHANGED <<config, pr, pr_commits, command, fn, send_comment, _pr_status,
                 merge_result, tally_vars, job_vars, response, calls>>

Next ==
  \/ Main
  \/ MergeCheckInvoker
  \/ FetchVotes
  \/ CheckVoter
  \/ LgtmApprove
  \/ LgtmNotEnough
  \/ MergeCall
  \/ MergeNotEnough
  \/ RescanComments
  \/ StartCherryPick
  \/ CpResolveBranch
  \/ CpBaseSha
  \/ CpCreateBranch
  \/ CpReplay
  \/ SummaryFetch
  \/ SummaryCheck
  \/ MergeSuccess
  \/ AssignUnassign
  \/ Label
  \/ Unlabel
  \/ CherryPick
  \/ Rebase
  \/ Help
  \/ MainEnd

Spec == Init /\ [][Next]_vars

(* The program is one sequential process that runs until it ends: a step   *)
(* that can be taken is taken.                                             *)
FairSpec == Spec /\ WF_vars(Next)

----------------------------------------------------------------------------
(* Observations over the state and the log of requests. *)

IssuedAt(ep) == {n \in 1..Len(calls) : calls[n].ep = ep}
Issued(ep) == IssuedAt(ep) # {}

(* The authors of the comments of cs that match the vote pattern. *)
VoteAuthors(cs) ==
  {cs[n].user : n \in {m \in 1..Len(cs) : MatchLgtm(cs[m].body)}}

(* The permission lookups the tally made for user u. *)
TallyLookups(u) ==
  {n \in 1..Len(calls) : /\ calls[n].ep = "GET collaborators/permission"
                         /\ calls[n].site = fn
                         /\ calls[n].arg = u}

(* The tally has returned its count and breakdown to its caller. *)
TallyReturned == pc \in {"lgtm_decide", "merge_decide"}

(* `comments` is the list the tally fetched, not a later reading. *)
TallyComments == pc \notin {"cp_loop", "merge_success", "summary_check"}

(* An answer of the permission endpoint that names an allowed level. *)
Permitted(resp) == resp.status_code = 200 /\ resp.permission \in {"admin", "write"}

(* The requests of the current cherry-pick job, and its replays' heads.     *)
JobCalls == SubSeq(calls, job_start + 1, Len(calls))
IsReplay(c) == c.ep = "POST merges"
IsCreation(c) == c.ep = "POST git/refs"
IsConflictReport(c) == c.arg = "CHERRY_PICK_CONFLICT"
ReplayHeads ==
  LET replays == SelectSeq(JobCalls, IsReplay)
  IN [n \in 1..Len(replays) |-> replays[n].data.head]
JobRunning == pc \in {"cp_resolve", "cp_base", "cp_create", "cp_replay"}

----------------------------------------------------------------------------
(* C1: a tally that returns, in the lgtm and in the merge command, never    *)
(* has the PR sender as a key of its breakdown and never counts the sender *)
(* in the number of valid votes: that number is the number of voters other *)
(* than the sender whose recorded permission is allowed.  The summary scan *)
(* of prow leaves the sender out as well.                                  *)
C1_SenderNeverCounted ==
  /\ pr_sender \notin Keys(lgtm_users)
  /\ TallyReturned =>
       /\ pr_sender \notin VoteAuthors(comments)
       /\ valid_votes =
            Cardinality({n \in 1..Len(lgtm_users) :
                           /\ lgtm_users[n].user # pr_sender
                           /\ lgtm_users[n].permission \in {"admin", "write"}})

(* A tally returned two valid votes on a PR its sender commented on. *)
C1_Witness ==
  /\ pc = "merge_decide"
  /\ \E n \in 1..Len(comments) : comments[n].user = pr_sender
  /\ Keys(lgtm_users) = {"bob", "carol"}
  /\ valid_votes = 2

(* C2: when a fetched comment that matches the vote pattern is the PR       *)
(* sender's, the self-approval rejection is posted right after the fetch   *)
(* and the process ends with status 1: the log holds no permission lookup  *)
(* of a voter, no approval review and no merge call, whatever the other    *)
(* votes are.                                                              *)
C2_SelfApprovalIsFatal ==
  (TallyComments /\ pr_sender \in VoteAuthors(comments)) =>
     /\ pc = "exited"
     /\ exit_code = 1
     /\ outcome = "self_approval"
     /\ Len(calls) >= 2
     /\ calls[Len(calls)].ep = "POST issues/comments"
     /\ calls[Len(calls)].arg = "SELF_APPROVAL_ERROR"
     /\ calls[Len(calls) - 1].ep = "GET issues/comments"
     /\ \A u \in Users : TallyLookups(u) = {}
     /\ ~Issued("POST pulls/reviews")
     /\ ~Issued("PUT pulls/merge")

(* The sender's vote stands between two votes of permitted users. *)
C2_Witness ==
  /\ outcome = "self_approval"
  /\ Len(comments) = 3
  /\ comments[1].user = "bob" /\ comments[2].user = pr_sender
  /\ comments[3].user = "carol"
  /\ \A n \in 1..3 : MatchLgtm(comments[n].body)

(* C3: votes are counted per author.  The breakdown has one entry per       *)
(* author of a vote, the number of valid votes is at most the number of    *)
(* distinct authors, and the tally looks each voter up exactly once (never *)
(* twice while it runs, and nobody else).                                  *)
C3_OneVotePerAuthor ==
  (pc \in {"tally_check", "lgtm_decide", "merge_decide"}) =>
    LET authors == VoteAuthors(comments)
    IN /\ \A m, n \in 1..Len(lgtm_users) :
            lgtm_users[m].user = lgtm_users[n].user => m = n
       /\ Keys(lgtm_users) = authors
       /\ valid_votes <= Cardinality(authors)
       /\ \A u \in Users : Cardinality(TallyLookups(u)) <= 1
       /\ \A u \in Users \ authors : TallyLookups(u) = {}
       /\ TallyReturned => \A u \in authors : Cardinality(TallyLookups(u)) = 1

(* Three votes of two authors, both permitted: two entries, two lookups.   *)
C3_Witness ==
  /\ TallyReturned
  /\ Len(comments) = 3
  /\ \A n \in 1..3 : MatchLgtm(comments[n].body)
  /\ comments[1].user = "bob" /\ comments[2].user = "carol"
  /\ comments[3].user = "bob"
  /\ Len(lgtm_users) = 2
  /\ valid_votes = 2

(* C4: the merge call and the approval review are in the log only if the    *)
(* number of valid votes reached the threshold.  Conversely, the step      *)
(* taken where merge_pr (resp. lgtm) decides with enough votes issues the  *)
(* merge call (resp. the review), and a process that ended past that       *)
(* decision has issued it exactly if the votes were enough.                *)
C4_ThresholdGate ==
  /\ [](Issued("PUT pulls/merge") => valid_votes >= lgtm_threshold)
  /\ [](Issued("POST pulls/reviews") => valid_votes >= lgtm_threshold)
  /\ []((pc = "exited" /\ outcome \in {"returned", "not_enough_lgtm"}) =>
          IF command = "merge"
          THEN Issued("PUT pulls/merge") <=> valid_votes >= lgtm_threshold
          ELSE Issued("POST pulls/reviews") <=> valid_votes >= lgtm_threshold)
  /\ [][(pc = "merge_decide" /\ valid_votes >= lgtm_threshold) =>
          /\ Len(calls') > Len(calls)
          /\ calls'[Len(calls) + 1].ep = "PUT pulls/merge"]_vars
  /\ [][(pc = "lgtm_decide" /\ valid_votes >= lgtm_threshold) =>
          /\ Len(calls') > Len(calls)
          /\ calls'[Len(calls) + 1].ep = "POST pulls/reviews"]_vars

(* A merge call issued with exactly as many valid votes as a threshold of 2. *)
C4_Witness ==
  /\ Issued("PUT pulls/merge")
  /\ lgtm_threshold = 2
  /\ valid_votes = 2

(* C5: the merge command looks the invoker up first.  If the answer does    *)
(* not name an allowed level, the insufficient-permission comment is       *)
(* posted and the process ends with status 1, with no comment fetch, no    *)
(* voter lookup, no review, no merge call and no cherry-pick call in the   *)
(* log; the tally is entered only on an allowed answer.                    *)
C5_InvokerGate ==
  /\ (pc = "tally_fetch" /\ command = "merge") => Permitted(response)
  /\ (command = "merge" /\ pc # "merge_pr") =>
       LET first == IF impl = "boussole" THEN 2 ELSE 1
       IN /\ Len(calls) >= first
          /\ calls[first].ep = "GET collaborators/permission"
          /\ calls[first].arg = comment_sender
          /\ \A n \in 1..(first - 1) : calls[n].ep = "GET pulls"
  /\ outcome = "insufficient_permissions" =>
       /\ pc = "exited"
       /\ exit_code = 1
       /\ ~Permitted(response)
       /\ Len(calls) = IF impl = "boussole" THEN 3 ELSE 2
       /\ calls[Len(calls)].ep = "POST issues/comments"
       /\ calls[Len(calls)].arg = "INSUFFICIENT_PERMISSIONS"
       /\ calls[Len(calls) - 1].ep = "GET collaborators/permission"
       /\ calls[Len(calls) - 1].arg = comment_sender
       /\ \A ep \in {"GET issues/comments", "POST pulls/reviews", "PUT pulls/merge",
                     "GET pulls/commits", "GET git/refs/heads", "POST git/refs",
                     "POST merges"} : ~Issued(ep)
  /\ (command = "merge" /\ pc = "exited" /\ Len(calls) >= 2
        /\ calls[Len(calls)].arg = "INSUFFICIENT_PERMISSIONS") =>
       outcome = "insufficient_permissions"

(* The invoker is a collaborator with read access only. *)
C5_Witness ==
  /\ outcome = "insufficient_permissions"
  /\ response.status_code = 200
  /\ response.permission = "read"

(* C6: the merge command on a PR that is not open ends in the fatal         *)
(* "not open" error (status 1) before any permission lookup, comment fetch *)
(* or merge call.  Nothing of the outcome depends on an earlier            *)
(* invocation, so a repetition ends the same way.  prow's main reads no PR *)
(* state and goes on to merge_pr, which refutes this.                      *)
C6_NotOpenIsFatal ==
  (MatchCommand(impl, trigger_comment) = "merge" /\ pr.state # "open") =>
     /\ ~Issued("GET collaborators/permission")
     /\ ~Issued("GET issues/comments")
     /\ ~Issued("PUT pulls/merge")
     /\ pc = "exited" => /\ exit_code = 1
                         /\ outcome \in {"not_open", "pr_status_error"}

(* C7: the heads of a job's replay calls are a prefix of the PR's commit    *)
(* list in the API's order; the replay of commit i+1 is issued only after  *)
(* the replay of commit i was answered with 201; a job that returned True  *)
(* has replayed the whole list.                                            *)
C7_ReplaysFollowCommitOrder ==
  target_branch # None =>
    /\ Len(ReplayHeads) <= Len(commits)
    /\ \A n \in 1..Len(ReplayHeads) : ReplayHeads[n] = commits[n].sha
    /\ pc = "cp_replay" => /\ Len(ReplayHeads) = i - 1
                           /\ i > 1 => response.status_code = 201
    /\ (~JobRunning /\ jobs # <<>> /\ jobs[Len(jobs)].returned) =>
         Len(ReplayHeads) = Len(commits)

(* A job returned True after replaying three commits onto a branch it made. *)
C7_Witness ==
  /\ target_branch # None
  /\ ~JobRunning
  /\ jobs # <<>> /\ jobs[Len(jobs)].returned
  /\ ReplayHeads = <<"c1", "c2", "c3">>
  /\ target_status = 404

(* C8: a replay answered with 409 is followed by one conflict report with   *)
(* the PR number, the target branch, the commit's position i, the total N  *)
(* and the conflicting commit's sha, and the job returns False; a replay   *)
(* answered with another status than 201 is followed by the generic        *)
(* cherry-pick error report with that status and the response text, and    *)
(* the job returns False.  In both cases the failed replay is the job's    *)
(* last, the report is the job's only comment, and no call undoes the      *)
(* replays made before.                                                    *)
C8_ReplayFailureStopsTheJob ==
  (Len(calls) >= 2 /\ IsReplay(calls[Len(calls) - 1])
     /\ response.status_code # 201) =>
    LET report == calls[Len(calls)]
        replay == calls[Len(calls) - 1]
        pos == Len(ReplayHeads)
    IN /\ pc = "exited"
       /\ merge_result = "False"
       /\ jobs # <<>>
       /\ jobs[Len(jobs)].branch = target_branch
       /\ ~jobs[Len(jobs)].returned
       /\ replay.data.i = pos
       /\ pos <= Len(commits)
       /\ report.ep = "POST issues/comments"
       /\ Cardinality({m \in 1..Len(JobCalls) :
                         JobCalls[m].ep = "POST issues/comments"}) = 1
       /\ \A m \in 1..Len(JobCalls) :
            JobCalls[m].ep \in {"GET pulls/commits", "GET pulls", "GET git/refs/heads",
                                "POST git/refs", "POST merges", "POST issues/comments"}
       /\ IF response.status_code = 409
          THEN /\ IsConflictReport(report)
               /\ report.data = [pr_num |-> "12", target_branch |-> target_branch,
                                 current_commit |-> pos, total_commits |-> Len(commits),
                                 commit_sha |-> commits[pos].sha]
          ELSE /\ report.arg = "CHERRY_PICK_ERROR"
               /\ report.data.target_branch = target_branch
               /\ report.data.status_code = response.status_code
               /\ report.data.error_text = "response.text"

(* The second of three commits conflicts on an existing branch. *)
C8_Witness ==
  /\ Len(calls) >= 2
  /\ IsConflictReport(calls[Len(calls)])
  /\ calls[Len(calls)].data.current_commit = 2
  /\ calls[Len(calls)].data.total_commits = 3
  /\ target_status = 200

(* C9: in the replay loop current_sha changes only on a 201, to the sha of  *)
(* that response, and stays on a conflict or another failure.  So for      *)
(* commits c1, c2, c3 with a conflict on c2 the job's current_sha when it  *)
(* returns is the sha produced after c1.  That sha is not reported: the    *)
(* conflict report carries the sha of the conflicting commit.              *)
C9_ShaAdvancesOnlyOn201 ==
  /\ [](i >= 1 =>
          current_sha =
            IF i > 1 THEN MergedSha(commits[i - 1].sha)
            ELSE IF target_status = 200 THEN HeadSha(target_branch)
            ELSE base_sha)
  /\ []((jobs # <<>> /\ target_branch = jobs[Len(jobs)].branch /\ ~JobRunning) =>
          jobs[Len(jobs)].sha = current_sha)
  /\ []((Len(calls) >= 1 /\ IsConflictReport(calls[Len(calls)])) =>
          /\ calls[Len(calls)].data.commit_sha = commits[i].sha
          /\ calls[Len(calls)].data.commit_sha # current_sha)
  /\ [][pc = "cp_replay" =>
          IF response'.status_code = 201
          THEN current_sha' = response'.sha
          ELSE current_sha' = current_sha]_vars

(* c2 of c1, c2, c3 conflicts: current_sha is the sha produced after c1.   *)
C9_Witness ==
  /\ pc = "exited"
  /\ Len(commits) = 3
  /\ i = 2
  /\ response.status_code = 409
  /\ current_sha = "m1"
  /\ jobs[Len(jobs)].sha = "m1"

(* C9 as stated: the sha the job reports at a conflict is the sha produced *)
(* by the last replay that succeeded.                                      *)
C9_ConflictReportsLastGoodSha ==
  (Len(calls) >= 1 /\ IsConflictReport(calls[Len(calls)]) /\ i > 1) =>
     calls[Len(calls)].data.commit_sha = MergedSha(commits[i - 1].sha)

(* C10: a job issues the branch-creation call at most once, and only when   *)
(* the first read of the target branch's head was answered not-found.      *)
(* _get_branch_sha answers None for every status but 200, so a read that   *)
(* failed otherwise leads to the creation call too, which refutes this.    *)
C10_CreationOnlyOnNotFound ==
  target_branch # None =>
    /\ Len(SelectSeq(JobCalls, IsCreation)) <= 1
    /\ Len(SelectSeq(JobCalls, IsCreation)) = 1 => target_status = 404

(* C11: when the read of the target branch found no branch and the PR's    *)
(* base branch resolves to sha S, the creation request names the target    *)
(* branch and S, the replay loop starts with current_sha = S, and a job    *)
(* whose creation and replays all succeeded posts one success report, right *)
(* after the last replay, with the sha that replay returned, and returns   *)
(* True.                                                                   *)
C11_CreatedAtBaseThenReplayed ==
  (target_branch # None /\ target_status \notin {0, 200}) =>
    LET done == {m \in 1..Len(JobCalls) : JobCalls[m].arg = "CHERRY_PICK_SUCCESS"}
    IN /\ \A m \in 1..Len(JobCalls) :
            IsCreation(JobCalls[m]) =>
              /\ JobCalls[m].arg = target_branch
              /\ JobCalls[m].data.sha = HeadSha(pr.base)
              /\ base_sha = HeadSha(pr.base)
       /\ (pc = "cp_replay" /\ i = 1) =>
            /\ current_sha = HeadSha(pr.base)
            /\ IsCreation(calls[Len(calls)])
       /\ (~JobRunning /\ jobs # <<>> /\ jobs[Len(jobs)].returned) =>
            /\ Len(commits) >= 1
            /\ jobs[Len(jobs)].branch = target_branch
            /\ Cardinality(done) = 1
            /\ \A m \in done :
                 /\ m >= 2
                 /\ IsReplay(JobCalls[m - 1])
                 /\ JobCalls[m - 1].data.head = commits[Len(commits)].sha
                 /\ JobCalls[m].data.commit_sha = MergedSha(commits[Len(commits)].sha)
                 /\ JobCalls[m].data.target_branch = target_branch
       /\ done # {} => (~JobRunning /\ jobs # <<>> /\ jobs[Len(jobs)].returned)

(* A missing branch is created at the head of main and two commits are     *)
(* replayed onto it: the report carries the sha of the second replay.      *)
C11_Witness ==
  /\ pc = "merge_success"
  /\ target_status = 404
  /\ Len(commits) = 2
  /\ Len(SelectSeq(JobCalls, IsCreation)) = 1
  /\ jobs # <<>> /\ jobs[Len(jobs)].returned
  /\ calls[Len(calls)].arg = "CHERRY_PICK_SUCCESS"
  /\ calls[Len(calls)].data.commit_sha = "m2"

(* More observations. *)

(* The merge call was issued and answered with success: no merge-failed    *)
(* report followed it.                                                     *)
MergeAccepted ==
  /\ Issued("PUT pulls/merge")
  /\ \A n \in 1..Len(calls) : calls[n].arg # "MERGE_FAILED"

(* merge_pr has returned to main. *)
MergeReturned == pc = "exited" /\ outcome = "returned" /\ command = "merge"

(* The branches requested by the comments merge_pr read after the merge:   *)
(* those whose job is still to start, is running, or has ended.            *)
Requested ==
  cherry_pick_branches \cup {jobs[n].branch : n \in 1..Len(jobs)}
    \cup (IF JobRunning THEN {target_branch} ELSE {})

(* C12: when merge_pr returns, it returns True exactly if the merge call    *)
(* was answered with success and the job of every requested branch has run *)
(* and returned True; the requested branches are those the comments read   *)
(* after the merge name, and stay the same while the jobs run.             *)
C12_MergeResult ==
  /\ [](MergeReturned =>
          /\ merge_result \in {"True", "False"}
          /\ merge_result = "True" <=>
                /\ MergeAccepted
                /\ cherry_pick_branches = {}
                /\ \A n \in 1..Len(jobs) : jobs[n].returned)
  /\ [](merge_result # "None" => MergeReturned)
  /\ [][(Len(calls') > Len(calls) /\ calls'[Len(calls) + 1].ep = "PUT pulls/merge") =>
          (response'.status_code = 200 <=>
             \A n \in 1..Len(calls') : calls'[n].arg # "MERGE_FAILED")]_vars
  /\ [][(pc = "merge_rescan" /\ pc' # "exited") =>
          /\ jobs' = <<>>
          /\ cherry_pick_branches' =
               {b \in BranchNames :
                  \E n \in 1..Len(response'.json) :
                     MatchCherryPick(response'.json[n].body) = b}]_vars
  /\ [][(pc \in {"cp_loop", "cp_resolve", "cp_base", "cp_create", "cp_replay"}) =>
          Requested' = Requested]_vars

(* Two branches requested: the first job succeeds, the second fails, and   *)
(* merge_pr returns False after an accepted merge.                         *)
C12_Witness ==
  /\ MergeReturned
  /\ MergeAccepted
  /\ merge_result = "False"
  /\ Len(jobs) = 2
  /\ jobs[1].returned /\ ~jobs[2].returned

(* C13: after an accepted merge every requested branch gets its job, even  *)
(* when the job of another branch ended in a conflict or failure: when     *)
(* merge_pr has returned, no requested branch is left without a job.       *)
(* merge_pr returns False from inside its loop at the first job that       *)
(* fails, which refutes this.                                              *)
C13_EveryRequestedBranchGetsAJob ==
  (MergeReturned /\ MergeAccepted) =>
     /\ cherry_pick_branches = {}
     /\ Requested = {jobs[n].branch : n \in 1..Len(jobs)}

(* C14: whenever the merge call was answered with success, the success      *)
(* summary is posted in that invocation, whatever the cherry-pick jobs do. *)
(* merge_pr returns (or exits on a failed re-read of the comments) before  *)
(* the summary when a job fails, which refutes this.                       *)
C14_SummaryAfterEveryMerge ==
  (pc = "exited" /\ MergeAccepted) =>
     \E n \in 1..Len(calls) : calls[n].arg = "SUCCESS_MERGED"

(* C15: a merge call answered with another status than success is         *)
(* followed at once by one merge-failed comment with that status and the   *)
(* response text, and merge_pr returns False.  The merge call is issued at *)
(* most once, and after a failed one the log holds no re-read of the       *)
(* comments, no commit or branch read, no branch creation and no replay.   *)
C15_MergeFailureIsReportedOnce ==
  /\ [](Cardinality(IssuedAt("PUT pulls/merge")) <= 1)
  /\ []((Issued("PUT pulls/merge") /\ ~MergeAccepted) =>
          LET put == CHOOSE n \in IssuedAt("PUT pulls/merge") : TRUE
          IN /\ MergeReturned
             /\ merge_result = "False"
             /\ exit_code = 0
             /\ response.status_code # 200
             /\ Len(calls) = put + 1
             /\ calls[put + 1].ep = "POST issues/comments"
             /\ calls[put + 1].arg = "MERGE_FAILED"
             /\ calls[put + 1].data.status_code = response.status_code
             /\ calls[put + 1].data.error_text = "response.text"
             /\ \A ep \in {"GET pulls/commits", "GET git/refs/heads", "POST git/refs",
                           "POST merges"} : ~Issued(ep)
             /\ \A n \in IssuedAt("GET issues/comments") : n < put)
  /\ [][(Len(calls') > Len(calls) /\ calls'[Len(calls) + 1].ep = "PUT pulls/merge"
           /\ response'.status_code # 200) =>
          /\ Len(calls') = Len(calls) + 2
          /\ calls'[Len(calls) + 2].arg = "MERGE_FAILED"
          /\ pc' = "exited"
          /\ merge_result' = "False"]_vars

(* prow: the review is posted, the merge call is answered 405. *)
C15_Witness ==
  /\ impl = "prow"
  /\ pc = "exited"
  /\ Issued("POST pulls/reviews")
  /\ calls[Len(calls)].arg = "MERGE_FAILED"
  /\ calls[Len(calls)].data.status_code = 405
  /\ valid_votes = 2

(* C16: a merge command whose invoker is permitted and whose tally ends     *)
(* below the threshold posts the breakdown or not-enough-votes comment,    *)
(* has merge_pr return False to main, and exits with status 0.             *)
C16_NotEnoughVotesReturnsFromMerge ==
  (/\ pc = "exited"
   /\ command = "merge"
   /\ outcome \in {"returned", "not_enough_lgtm"}
   /\ valid_votes < lgtm_threshold) =>
     /\ \E n \in 1..Len(calls) :
           /\ calls[n].ep = "POST issues/comments"
           /\ calls[n].arg \in {"NOT_ENOUGH_LGTM", "LGTM_BREAKDOWN_TEMPLATE"}
     /\ outcome = "returned"
     /\ merge_result = "False"
     /\ exit_code = 0

(* C17: a membership lookup issues one read and nothing else and does not  *)
(* end the process.  Its result is (None, false) for a not-found answer,   *)
(* for any other status than success and for a missing or empty permission *)
(* field, and otherwise (p, p in lgtm_permissions) for the permission p of *)
(* the answer: the tally records the first part and counts the second, and *)
(* merge_pr goes on for its invoker exactly when the second is true.       *)
C17_MembershipLookup ==
  [][LET resp == response'
         permission == IF resp.status_code = 404 THEN None
                       ELSE IF resp.status_code # 200 THEN None
                       ELSE IF resp.permission \in {None, ""} THEN None
                       ELSE resp.permission
         is_valid == permission # None /\ permission \in {"admin", "write"}
         read == calls'[Len(calls) + 1]
     IN /\ (pc \in {"tally_check", "summary_check"}) =>
             /\ Len(calls') = Len(calls) + 1
             /\ read.ep = "GET collaborators/permission"
             /\ read.arg = lgtm_users[k].user
             /\ pc' # "exited"
             /\ exit_code' = exit_code
             /\ Len(lgtm_users') = Len(lgtm_users)
             /\ lgtm_users'[k] = [user |-> lgtm_users[k].user, permission |-> permission]
             /\ (pc = "tally_check") =>
                   valid_votes' = valid_votes + (IF is_valid THEN 1 ELSE 0)
        /\ (pc = "merge_pr") =>
             /\ read.ep = "GET collaborators/permission"
             /\ read.arg = comment_sender
             /\ \A n \in (Len(calls) + 2)..Len(calls') :
                   /\ calls'[n].ep = "POST issues/comments"
                   /\ calls'[n].arg = "INSUFFICIENT_PERMISSIONS"
                   /\ calls'[n].data.permission = permission
             /\ (pc' = "tally_fetch") <=> is_valid
             /\ (pc' = "exited") <=> ~is_valid]_vars

(* One voter was counted with write permission, another recorded without   *)
(* any, and the last answer was a success with an empty permission field.  *)
C17_Witness ==
  /\ pc \in {"lgtm_decide", "merge_decide"}
  /\ Len(lgtm_users) = 2
  /\ lgtm_users[1].permission = "write"
  /\ lgtm_users[2].permission = None
  /\ valid_votes = 1
  /\ response.status_code = 200
  /\ response.permission = ""

(* The handler of the command did all of its work and no answer it looked  *)
(* at was a failure.                                                       *)
CommandCompleted ==
  CASE command = "merge" -> merge_result = "True"
    [] command = "lgtm" -> Issued("POST pulls/reviews")
    [] command = "unlabel" ->
         \E n \in 1..Len(calls) : calls[n].arg = "REMOVED_LABELS"
    [] command = "cherry-pick" ->
         \E n \in 1..Len(calls) : calls[n].arg = "WILL_CHERRY_PICK"
    [] command \in {"assign", "unassign", "label", "rebase", "help"} ->
         outcome \in {"done", "command_failed"} /\ CheckResponse(response)
    [] OTHER -> FALSE

(* C18: the exit status is 0 when a recognized command has completed with  *)
(* success or ended with too few votes, and is not 0 after a self-approval,*)
(* an invoker without merge permission, a failed fetch of the comments or  *)
(* of the PR, a PR that is not open, or an unrecognized command.           *)
C18_ExitStatus ==
  (pc = "exited") =>
     /\ (CommandCompleted \/ outcome = "not_enough_lgtm"
           \/ (command = "merge" /\ outcome = "returned"
                 /\ valid_votes < lgtm_threshold)) => exit_code = 0
     /\ (outcome \in {"self_approval", "insufficient_permissions",
                      "comments_fetch_error", "pr_status_error", "not_open",
                      "no_command"}) => exit_code # 0

(* The comments that explain a failure. *)
FailureTemplates ==
  {"SELF_APPROVAL_ERROR", "INSUFFICIENT_PERMISSIONS", "LGTM_BREAKDOWN_TEMPLATE",
   "NOT_ENOUGH_LGTM", "MERGE_FAILED", "CHERRY_PICK_ERROR", "CHERRY_PICK_CONFLICT"}

(* The invocation has ended in a failure for a known PR: a failed fetch of *)
(* the comments, a PR that is not open, a self-approval, an invoker        *)
(* without permission, too few votes, or a merge_pr that returned False (a *)
(* rejected merge or a failed cherry-pick job).                            *)
FailureOutcome ==
  /\ pc = "exited"
  /\ \/ outcome \in {"comments_fetch_error", "not_open", "self_approval",
                      "insufficient_permissions", "not_enough_lgtm"}
     \/ (command = "merge" /\ outcome = "returned" /\ merge_result = "False")

(* C19: an invocation that ends in a failure has posted at least one       *)
(* comment that explains the failure.                                      *)
C19_FailureIsCommented ==
  FailureOutcome =>
    \E n \in 1..Len(calls) :
      /\ calls[n].ep = "POST issues/comments"
      /\ calls[n].arg \in FailureTemplates

(* The calls that read, and the kinds of call in the log that change       *)
(* something other than the PR's comments.                                 *)
ReadEps ==
  {"GET pulls", "GET issues/comments", "GET collaborators/permission",
   "GET pulls/commits", "GET git/refs/heads"}
Mutations ==
  {calls[n].ep : n \in 1..Len(calls)} \ (ReadEps \cup {"POST issues/comments"})

(* The expected negative ends of an invocation: too few votes, a rejected  *)
(* merge call, a cherry-pick job that failed or met a conflict.            *)
NotEnoughOutcome ==
  /\ pc = "exited"
  /\ \/ outcome = "not_enough_lgtm"
     \/ (command = "merge" /\ outcome = "returned" /\ valid_votes < lgtm_threshold)
MergeRejected == pc = "exited" /\ Issued("PUT pulls/merge") /\ ~MergeAccepted
JobFailed == MergeReturned /\ jobs # <<>> /\ ~jobs[Len(jobs)].returned
ExpectedNegative ==
  /\ pc = "exited"
  /\ \/ outcome = "not_enough_lgtm"
     \/ (command = "merge" /\ outcome = "returned" /\ merge_result = "False")

(* C20 as stated: an invocation that ends in an expected negative outcome  *)
(* has issued no mutating call other than the posting of comments.         *)
C20_NegativeOutcomeMutatesNothing ==
  ExpectedNegative => Mutations = {}

(* C20: an invocation that ends with too few votes has issued no mutating  *)
(* call other than the posting of comments.  One that ends with a rejected *)
(* merge has issued the merge call and, in prow, the approval review       *)
(* before it, and nothing else.  One that ends with a failed or conflicting*)
(* cherry-pick job has merged the PR and may have created the branch and   *)
(* replayed commits, and nothing else.  There is no other expected         *)
(* negative outcome.                                                       *)
C20_MutationsOfNegativeOutcomes ==
  /\ NotEnoughOutcome => Mutations = {}
  /\ MergeRejected =>
       Mutations = (IF impl = "prow" THEN {"PUT pulls/merge", "POST pulls/reviews"}
                    ELSE {"PUT pulls/merge"})
  /\ JobFailed =>
       /\ "PUT pulls/merge" \in Mutations
       /\ Mutations \subseteq {"PUT pulls/merge", "POST git/refs", "POST merges"}
  /\ ExpectedNegative => (NotEnoughOutcome \/ MergeRejected \/ JobFailed)

(* A conflict on a later commit, on a branch the job created. *)
C20_Witness ==
  /\ JobFailed
  /\ jobs[Len(jobs)].outcome = "conflict"
  /\ Issued("POST git/refs")
  /\ Cardinality(IssuedAt("POST merges")) >= 2

(* C21: a permission lookup of the tally that fails does not end the       *)
(* tally.  The voter is recorded without a permission and not counted, the *)
(* loop goes on with the next voter, and a tally that has returned has     *)
(* looked up every voter once and counted those whose recorded permission  *)
(* is an allowed one.                                                      *)
C21_FailedLookupIsNotFatal ==
  /\ [][(pc = "tally_check" /\ response'.status_code # 200) =>
          /\ pc' = (IF k < Len(lgtm_users) THEN "tally_check"
                    ELSE IF fn = "lgtm" THEN "lgtm_decide" ELSE "merge_decide")
          /\ exit_code' = exit_code /\ outcome' = outcome
          /\ lgtm_users'[k] = [user |-> lgtm_users[k].user, permission |-> None]
          /\ valid_votes' = valid_votes
          /\ k' = k + 1]_vars
  /\ [](TallyReturned =>
          /\ \A n \in 1..Len(lgtm_users) :
                Cardinality(TallyLookups(lgtm_users[n].user)) = 1
          /\ valid_votes =
               Cardinality({n \in 1..Len(lgtm_users) :
                              lgtm_users[n].permission \in lgtm_permissions}))

(* The lookup of the first of two voters was answered 500: the voter is    *)
(* recorded without a permission and the tally stands at the second voter. *)
C21_Witness ==
  /\ pc = "tally_check"
  /\ k = 2
  /\ Len(lgtm_users) = 2
  /\ response.status_code = 500
  /\ lgtm_users[1].permission = None
  /\ valid_votes = 0
  /\ Cardinality(TallyLookups(lgtm_users[1].user)) = 1

(* The place of the first vote comment of user u in cs. *)
FirstVote(cs, u) ==
  CHOOSE n \in 1..Len(cs) :
    /\ cs[n].user = u /\ MatchLgtm(cs[n].body)
    /\ \A m \in 1..(n - 1) : ~(cs[m].user = u /\ MatchLgtm(cs[m].body))

(* C22: the breakdown of a tally that has returned has one key per author  *)
(* of a vote comment, valid or not, in the order of the authors' first     *)
(* vote comments, and the number of its entries with an allowed permission *)
(* is the number of valid votes.  The breakdown comment renders the        *)
(* entries in that order.                                                  *)
C22_BreakdownCompleteAndOrdered ==
  /\ TallyReturned =>
       /\ Keys(lgtm_users) = VoteAuthors(comments)
       /\ Len(lgtm_users) = Cardinality(VoteAuthors(comments))
       /\ \A m, n \in 1..Len(lgtm_users) :
             (m < n) => FirstVote(comments, lgtm_users[m].user)
                          < FirstVote(comments, lgtm_users[n].user)
       /\ Cardinality({n \in 1..Len(lgtm_users) :
                         lgtm_users[n].permission \in lgtm_permissions}) = valid_votes
  /\ (pc = "exited" /\ outcome = "not_enough_lgtm" /\ send_comment) =>
       LET table == calls[Len(calls)].data.users_table
       IN /\ calls[Len(calls)].arg = "LGTM_BREAKDOWN_TEMPLATE"
          /\ Len(table) = Len(lgtm_users)
          /\ \A n \in 1..Len(table) :
                /\ table[n].user = lgtm_users[n].user
                /\ table[n].permission = lgtm_users[n].permission
                /\ table[n].valid_mark = (lgtm_users[n].permission \in lgtm_permissions)
          /\ \A m, n \in 1..Len(table) :
                (m < n) => FirstVote(comments, table[m].user)
                             < FirstVote(comments, table[n].user)

(* carol votes, bob votes, carol votes again; carol may only read.  The    *)
(* breakdown posted lists carol, marked invalid, before bob.               *)
C22_Witness ==
  /\ pc = "exited" /\ outcome = "not_enough_lgtm" /\ send_comment
  /\ Len(comments) = 3
  /\ \A n \in 1..3 : MatchLgtm(comments[n].body)
  /\ comments[1].user = "carol" /\ comments[2].user = "bob"
  /\ comments[3].user = "carol"
  /\ lgtm_users = <<[user |-> "carol", permission |-> "read"],
                    [user |-> "bob", permission |-> "write"]>>
  /\ valid_votes = 1

(* C23: when the tally's fetch of the comments is answered with another   *)
(* status than success, the process ends with a status other than 0: the   *)
(* fetch is the last call of the log, which holds no permission lookup of  *)
(* a voter, no approval review and no merge call, and no call follows.     *)
C23_CommentsFetchFailureIsFatal ==
  /\ [][(pc = "tally_fetch" /\ response'.status_code # 200) =>
          /\ pc' = "exited"
          /\ exit_code' # 0
          /\ Len(calls') = Len(calls) + 1
          /\ calls'[Len(calls')].ep = "GET issues/comments"
          /\ UNCHANGED <<lgtm_users, valid_votes>>]_vars
  /\ []((pc = "exited" /\ outcome = "comments_fetch_error"
           /\ ~Issued("PUT pulls/merge")) =>
          /\ exit_code = 1
          /\ response.status_code # 200
          /\ calls[Len(calls)].ep = "GET issues/comments"
          /\ \A u \in Users : TallyLookups(u) = {}
          /\ ~Issued("POST pulls/reviews"))
  /\ [][(pc = "exited") => calls' = calls]_vars

(* A merge command: the invoker was looked up, then the fetch of the       *)
(* comments was answered 500.                                              *)
C23_Witness ==
  /\ pc = "exited"
  /\ command = "merge"
  /\ outcome = "comments_fetch_error"
  /\ response.status_code = 500
  /\ ~Issued("PUT pulls/merge")
  /\ calls[Len(calls)].ep = "GET issues/comments"
  /\ calls[Len(calls) - 1].ep = "GET collaborators/permission"

(* The job's calls of one kind, and its error reports. *)
JobCallsTo(ep) == {n \in 1..Len(JobCalls) : JobCalls[n].ep = ep}
JobErrorReports ==
  {n \in 1..Len(JobCalls) : JobCalls[n].arg = "CHERRY_PICK_ERROR"}

(* The job ended before its first replay, with one error report as its     *)
(* last call, and returned False.                                          *)
JobEndedEarly ==
  /\ pc = "exited"
  /\ JobCallsTo("POST merges") = {}
  /\ Cardinality(JobCallsTo("POST issues/comments")) = 1
  /\ JobErrorReports = {Len(JobCalls)}
  /\ jobs # <<>>
  /\ jobs[Len(jobs)].branch = target_branch
  /\ jobs[Len(jobs)].outcome = "failed"
  /\ ~jobs[Len(jobs)].returned
  /\ merge_result = "False"

(* C24: a job's replay loop is entered only with a fetched, non-empty list *)
(* of commits, and either right after the target branch's head was read or *)
(* right after the creation call, made at the resolved base head, was      *)
(* answered 201; replay calls are issued in that loop only, and the        *)
(* creation call only after the base head was resolved.  With an empty or  *)
(* failed commit fetch the job's calls are the fetch and one error report; *)
(* with an unresolvable base there is no creation call; after a failed     *)
(* creation there is no replay; in these cases one error report is posted  *)
(* and the job returns False.                                              *)
C24_ReplayPreconditions ==
  /\ [][/\ (pc' = "cp_replay" /\ pc # "cp_replay") =>
             /\ commits # <<>>
             /\ JobCalls'[1].ep = "GET pulls/commits"
             /\ IF pc = "cp_resolve"
                THEN /\ response'.status_code = 200
                     /\ calls'[Len(calls')].ep = "GET git/refs/heads"
                     /\ calls'[Len(calls')].arg = target_branch
                     /\ current_sha' = response'.sha
                ELSE /\ pc = "cp_create"
                     /\ base_sha # None
                     /\ response'.status_code = 201
                     /\ calls'[Len(calls')] =
                          Call("POST git/refs", "_create_branch", target_branch,
                               [sha |-> base_sha])
        /\ (\E n \in (Len(calls) + 1)..Len(calls') : IsReplay(calls'[n])) =>
             pc = "cp_replay"
        /\ (\E n \in (Len(calls) + 1)..Len(calls') : IsCreation(calls'[n])) =>
             pc = "cp_create" /\ base_sha # None /\ target_status # 200]_vars
  /\ []((target_branch # None /\ ~JobRunning /\ commits = <<>>) =>
          /\ JobEndedEarly
          /\ Len(JobCalls) = 2
          /\ JobCalls[1].ep = "GET pulls/commits")
  /\ []((target_branch # None /\ ~JobRunning /\ commits # <<>>
           /\ target_status # 200 /\ base_sha = None) =>
          /\ JobEndedEarly
          /\ JobCallsTo("POST git/refs") = {})
  /\ []((target_branch # None /\ ~JobRunning /\ Len(calls) >= 2
           /\ IsCreation(calls[Len(calls) - 1])) =>
          /\ response.status_code # 201
          /\ JobEndedEarly)

(* The target branch is missing, the base head is resolved, the creation   *)
(* call is answered 422: one report, no replay.                            *)
C24_Witness ==
  /\ JobEndedEarly
  /\ commits # <<>>
  /\ target_status = 404
  /\ base_sha = "abc123"
  /\ IsCreation(calls[Len(calls) - 1])
  /\ response.status_code = 422

(* C25: the PR is read at most once in an invocation, whatever the number *)
(* of jobs that need its base branch: a response once held is never        *)
(* replaced, and the base branch whose head a job reads is the one of the  *)
(* held response.                                                          *)
C25_PrStatusReadOnce ==
  /\ [](Cardinality(IssuedAt("GET pulls")) <= 1)
  /\ [][(_pr_status # NoResponse) => _pr_status' = _pr_status]_vars
  /\ [][(pc = "cp_base") =>
          /\ \A n \in (Len(calls) + 1)..Len(calls') : calls'[n].ep # "GET pulls"
          /\ calls'[Len(calls) + 1].ep = "GET git/refs/heads"
          /\ calls'[Len(calls) + 1].arg = _pr_status.base]_vars

(* Two jobs of one invocation have read the head of the base branch. *)
C25_Witness ==
  /\ Cardinality({n \in IssuedAt("GET git/refs/heads") : calls[n].arg = "main"}) >= 2
  /\ Cardinality(IssuedAt("GET pulls")) = 1
  /\ Len(jobs) >= 1

(* The trigger comment starts with the cherry-pick command. *)
CherryPickCommand ==
  HasPrefix(Chars(trigger_comment), Chars("/cherry-pick"), FALSE)

(* C26: a branch creation or a replay is in the log only after the merge   *)
(* call of the invocation, and a merge call answered with another status   *)
(* than success ends the invocation, so that none follows it.  The         *)
(* cherry-pick command itself issues no creation, replay or merge call: it *)
(* posts its acknowledgement at most.                                      *)
C26_CherryPickOnlyAfterMerge ==
  /\ [](\A n \in IssuedAt("POST git/refs") \cup IssuedAt("POST merges") :
          \E m \in IssuedAt("PUT pulls/merge") : m < n)
  /\ [][(Len(calls') > Len(calls) /\ calls'[Len(calls) + 1].ep = "PUT pulls/merge"
           /\ response'.status_code # 200) => pc' = "exited"]_vars
  /\ [][(pc = "exited") => pc' = "exited"]_vars
  /\ [](CherryPickCommand =>
          /\ \A n \in 1..Len(calls) :
                \/ calls[n].ep = "GET pulls"
                \/ (calls[n].ep = "POST issues/comments"
                      /\ calls[n].arg = "WILL_CHERRY_PICK")
          /\ (pc = "exited" /\ outcome = "done") =>
                /\ Len(calls) = 2
                /\ calls[2].arg = "WILL_CHERRY_PICK"
                /\ calls[2].data.target_branch = "b1")

(* The merge call was answered 200, the branch was created, and the job   *)
(* stands in its replay loop after a first replay.                         *)
C26_Witness ==
  /\ pc = "cp_replay"
  /\ MergeAccepted
  /\ Issued("POST git/refs")
  /\ Issued("POST merges")
  /\ \A n \in IssuedAt("POST git/refs") \cup IssuedAt("POST merges") :
       \E m \in IssuedAt("PUT pulls/merge") : m < n

(* The comments of cs that request a cherry-pick to branch b. *)
RequestsFor(cs, b) == {n \in 1..Len(cs) : MatchCherryPick(cs[n].body) = b}

(* The branches whose job has started: the ended jobs' and the running     *)
(* one's.                                                                  *)
StartedBranches ==
  [n \in 1..Len(jobs) |-> jobs[n].branch]
    \o (IF JobRunning THEN <<target_branch>> ELSE <<>>)

(* C27: after a merge the branches requested by the comments are          *)
(* collected as a set, one element per distinct name whatever the number  *)
(* of comments naming it; each turn of the loop takes one branch out of   *)
(* the set and starts its job; no branch has two jobs, and a branch whose *)
(* job has started is not in the set any more.                            *)
C27_OneJobPerBranch ==
  /\ [](\A m, n \in 1..Len(StartedBranches) :
          StartedBranches[m] = StartedBranches[n] => m = n)
  /\ [](\A n \in 1..Len(StartedBranches) :
          StartedBranches[n] \notin cherry_pick_branches)
  /\ [](Cardinality(IssuedAt("GET pulls/commits")) = Len(StartedBranches))
  /\ []((pc = "cp_loop" /\ jobs = <<>>) =>
          /\ cherry_pick_branches =
               {b \in BranchNames : RequestsFor(comments, b) # {}}
          /\ Cardinality(cherry_pick_branches) <= Len(comments))
  /\ [][(pc = "cp_loop") =>
          /\ target_branch' \in cherry_pick_branches
          /\ cherry_pick_branches' = cherry_pick_branches \ {target_branch'}
          /\ Len(StartedBranches') = Len(StartedBranches) + 1]_vars

(* Two comments request b1: the set holds b1 once, for one job. *)
C27_Witness ==
  /\ pc = "cp_loop"
  /\ jobs = <<>>
  /\ Cardinality(RequestsFor(comments, "b1")) = 2
  /\ cherry_pick_branches = {"b1"}

(* The comment body is the cherry-pick command with the single argument b, *)
(* as the cherry_pick handler accepts it.                                  *)
SingleArgumentRequest(body, b) ==
  /\ HasPrefix(Chars(body), Chars("/cherry-pick"), TRUE)
  /\ Split(Chars(body), Len(Chars("/cherry-pick")) + 1) = <<b>>

(* C28: the branches collected after a merge are those named by a comment  *)
(* that is the cherry-pick command with exactly one argument; a comment    *)
(* with another number of arguments contributes no branch and causes no    *)
(* job.                                                                    *)
C28_OnlySingleArgumentRequests ==
  (pc = "cp_loop" /\ jobs = <<>>) =>
     \A b \in cherry_pick_branches :
       \E n \in 1..Len(comments) : SingleArgumentRequest(comments[n].body, b)

(* A bound on the calls of one invocation: main, the invoker, the tally,   *)
(* the review and the merge, the second reading of the comments, the jobs, *)
(* the summary and its lookups.                                            *)
CallBound ==
  8 + 2 * Cardinality(Users) + Cardinality(BranchNames) * (6 + MaxCommits)

(* Two requests are the same one. *)
SameRequest(c, d) ==
  /\ c.ep = d.ep
  /\ c.site = d.site
  /\ c.arg = d.arg
  /\ c.data = d.data

(* C29: nothing is retried.  Every invocation ends, after a bounded number *)
(* of calls; no request is issued twice in a row; a job issues at most one *)
(* commit fetch, one read of the target head, one creation call and one    *)
(* replay per commit, all for different commits, and ends as done,         *)
(* conflict or failed; the merge call is issued at most once and each      *)
(* voter is looked up at most once by the tally.                           *)
C29_NoRetryAndTermination ==
  /\ <>(pc = "exited")
  /\ [](Len(calls) <= CallBound)
  /\ [](\A n \in 2..Len(calls) : ~SameRequest(calls[n - 1], calls[n]))
  /\ [](Cardinality(IssuedAt("PUT pulls/merge")) <= 1)
  /\ [](\A u \in Users : Cardinality(TallyLookups(u)) <= 1)
  /\ [](target_branch # None =>
          /\ Cardinality(JobCallsTo("GET pulls/commits")) = 1
          /\ Cardinality(JobCallsTo("POST git/refs")) <= 1
          /\ Cardinality({n \in JobCallsTo("GET git/refs/heads") :
                            JobCalls[n].arg = target_branch}) <= 1
          /\ Cardinality(JobCallsTo("POST merges")) <= Len(commits)
          /\ \A m, n \in 1..Len(ReplayHeads) :
                ReplayHeads[m] = ReplayHeads[n] => m = n)
  /\ [](\A n \in 1..Len(jobs) : jobs[n].outcome \in {"done", "conflict", "failed"})
  /\ [][(pc = "cp_replay") =>
          \/ i' = i + 1
          \/ (pc' = "exited" /\ ~jobs'[Len(jobs')].returned)]_vars

(* A job ended as failed on the replay of the second of three commits,    *)
(* answered 500: three calls to replay were not made.                     *)
C29_Witness ==
  /\ pc = "exited"
  /\ jobs # <<>>
  /\ jobs[Len(jobs)].outcome = "failed"
  /\ Len(commits) = 3
  /\ Len(ReplayHeads) = 2
  /\ response.status_code = 500

(* The positions of the success summaries among the calls. *)
SuccessSummaries ==
  {n \in 1..Len(calls) : /\ calls[n].ep = "POST issues/comments"
                         /\ calls[n].arg = "SUCCESS_MERGED"}

(* The users the tally looked up: the voters of the tally. *)
TallyVoters ==
  {calls[n].arg : n \in {m \in 1..Len(calls) :
      /\ calls[m].ep = "GET collaborators/permission"
      /\ calls[m].site \in {"lgtm", "_fetch_and_validate_lgtm_votes"}}}

(* C30: in a success summary the rows marked valid are as many as the      *)
(* reported valid votes, and the rows are the voters of the tally that     *)
(* gated the merge.  prow builds the rows from comments and permissions    *)
(* it reads again after the merge, while the count is the tally's, so a    *)
(* vote or a permission that changed in between refutes both parts.        *)
C30_SummaryMatchesTally ==
  \A n \in SuccessSummaries :
     LET rows == calls[n].data.users_table
     IN /\ Cardinality({r \in 1..Len(rows) : rows[r].valid_mark})
             = calls[n].data.valid_votes
        /\ {rows[r].user : r \in 1..Len(rows)} = TallyVoters

(* The confirmation comments of the simple commands. *)
Confirmations == {"ASSIGNED", "ADDED_LABELS", "REMOVED_LABELS", "REBASED"}

(* The hosting-API operation a simple command stands for. *)
OperationOf(cmd) ==
  CASE cmd = "assign" -> "POST pulls/requested_reviewers"
    [] cmd = "unassign" -> "DELETE pulls/requested_reviewers"
    [] cmd = "label" -> "POST issues/labels"
    [] cmd = "unlabel" -> "DELETE issues/labels"
    [] cmd = "rebase" -> "PUT pulls/update-branch"
    [] OTHER -> None

(* C31: a confirmation comment of assign, unassign, label, unlabel or      *)
(* rebase comes after the command's operation was issued, and the answer   *)
(* the handler returns for that operation is a success.  label and rebase  *)
(* post the comment before they issue the operation, which refutes this.   *)
C31_ConfirmationOnlyAfterSuccess ==
  \A n \in 1..Len(calls) :
     (calls[n].ep = "POST issues/comments" /\ calls[n].arg \in Confirmations) =>
        /\ \E m \in 1..(n - 1) : calls[m].ep = OperationOf(command)
        /\ (command # "unlabel" => CheckResponse(response))

(* C32: in boussole, after assign, unassign, label, rebase or help on an   *)
(* open PR, the exit status is not 0 exactly when the status of the        *)
(* response the handler returned is outside 200..299.  A response with a   *)
(* status from 400 on is false, check_response is not applied to it and    *)
(* the exit status is 0, which refutes this.                               *)
C32_ExitStatusFollowsResponse ==
  (/\ impl = "boussole"
   /\ pc = "exited"
   /\ command \in {"assign", "unassign", "label", "rebase", "help"}
   /\ outcome \in {"done", "command_failed"}) =>
     ((exit_code # 0) <=> ~CheckResponse(response))

====
